---- MODULE Spec2Model ----
(***************************************************************************)
(* State-machine model of the photo-analysis core:                         *)
(*   - the persistent vector index   (api/usearch_api.rs)                   *)
(*   - the ML runtime registry       (ml/runtime.rs)                        *)
(*   - the analysis orchestrator     (api/ml_indexing_api.rs)               *)
(* Each subsystem has its own specification over the shared variables.      *)
(***************************************************************************)
EXTENDS Integers, Sequences, FiniteSets, TLC

\* ------------------------------------------------------------------ bounds
MaxKey == 2
MaxVec == 2
MaxBulk == 2
MaxCalls == 4
MaxFaults == 1
MaxCrashes == 1

\* ------------------------------------------------------- program constants
InitialReserve == 1000
CapacityHeadroom == 1000

Keys == 1..MaxKey
Vectors == 1..MaxVec

\* what a file holds: nothing (no file), part of a snapshot, a whole snapshot
Absent == [kind |-> "absent", entries |-> {}]
Partial == [kind |-> "partial", entries |-> {}]
NoTemp == <<0, 0>>
Unknown == [known |-> FALSE, idx |-> {}]
Known(idx) == [known |-> TRUE, idx |-> idx]

VARIABLES
    \* ---- vector index (VectorDB) and its files
    handle,        \* "none" | "open": whether a VectorDB value exists
    index,         \* the in-memory usearch index: a set of <<key, vector>>
    capacity,      \* the index's reserved capacity
    disk,          \* the file at the backing path: Absent | Partial | snapshot
    temps,         \* temp files beside it: a set of <<name, content>>
    saveCounter,   \* INDEX_SAVE_TEMP_COUNTER of the running process
    pid,           \* std::process::id() of the running process
    calls,         \* calls made so far (New and the mutators)
    pc,            \* position of the call in progress
    result,        \* "none" | "Ok" | "Err": what the last call returned
    tmp,           \* temp_path of the save in progress
    faults,        \* library / OS failures so far
    crashes,       \* process stops so far
    \* ---- history of the vector index
    crashedInSave, \* the process stopped inside save_index
    closed,        \* the index contents when the handle was dropped after Ok
    mustHave,      \* key -> the vectors the calls so far promise for it
    pending,       \* mustHave as it will be if the call in progress returns Ok
    injected       \* a library / OS failure hit the call in progress

dbVars == <<handle, index, capacity, disk, temps, saveCounter, pid, calls, pc,
            result, tmp, faults, crashes, crashedInSave, closed, mustHave,
            pending, injected>>

VARIABLES
    \* ---- ML runtime registry and analysis calls
    \* ---- shared
    target,          \* the platform the library was compiled for
    GLOBAL_RUNTIME,  \* Option<RuntimeState> inside the mutex: {} or {state}
    poisoned,        \* the mutex's poison flag
    lockOwner,       \* the thread holding the mutex across a closure, or NoOwner
    \* ---- per thread
    callPc,          \* position of the thread's call in progress
    apiCall,         \* the API function the thread called last
    req,             \* the AnalyzeImageRequest of that call
    config,          \* the MlRuntimeConfig of that call
    built,           \* the MlRuntime created and not yet installed: {} or {rt}
    detections,      \* number of faces the detector returned in this call
    outcome,         \* what the call returned (its fields fill up as it runs)
    \* ---- history
    trace,           \* the steps the call has run, each with its error if any
    stale            \* the registry still holds what a panicked closure left

rtVars == <<target, GLOBAL_RUNTIME, poisoned, lockOwner, callPc, apiCall, req,
            config, built, detections, outcome, trace, stale>>

VARIABLES
    \* ---- face detection post-processing (ml/face/detect.rs)
    detPc,           \* position inside run_face_detection
    rows,            \* the rows of the detector's output tensor
    scaled,          \* the letterboxed image size preprocess_yolo returned
    candidates,      \* the detections handed to naive_non_max_suppression
    nmsList,         \* the list naive_non_max_suppression works on
    nmsI,            \* its index i
    nmsJ             \* its index j

detVars == <<detPc, rows, scaled, candidates, nmsList, nmsI, nmsJ>>

DetectIdle ==
    /\ detPc = "off"
    /\ rows = <<>>
    /\ scaled = [width |-> 0, height |-> 0]
    /\ candidates = <<>>
    /\ nmsList = <<>>
    /\ nmsI = 0
    /\ nmsJ = 0

VARIABLES
    \* ---- the search functions of VectorDB (api/usearch_api.rs)
    sPc,             \* position inside the search function called
    sOp,             \* the search function called
    sSize,           \* self.index.size(): the index holds the keys 1..sSize
    sQueries,        \* the queries (one for a single-query search)
    sAllowed,        \* allowed_keys
    sCount,          \* count
    sExact,          \* exact
    sLimit,          \* minimum_similarity or max_distance
    sStep,           \* the loop's position: a step count or a query
    sPrev,           \* previous_count
    sSearches,       \* the number of searches the index was asked for
    sMatch,          \* the Result<SearchMatch, String> returned
    sBulk            \* the Result<BulkSearchMatch, String> returned

searchVars == <<sPc, sOp, sSize, sQueries, sAllowed, sCount, sExact, sLimit,
                sStep, sPrev, sSearches, sMatch, sBulk>>

SearchIdle ==
    /\ sPc = "off"
    /\ sOp = "none"
    /\ sSize = 0
    /\ sQueries = <<>>
    /\ sAllowed = <<>>
    /\ sCount = 0
    /\ sExact = FALSE
    /\ sLimit = [kind |-> "finite", v |-> 0]
    /\ sStep = 0
    /\ sPrev = 0
    /\ sSearches = 0
    /\ sMatch = {}
    /\ sBulk = {}

VARIABLES
    \* ---- face thumbnails (ml/face/thumbnail.rs)
    tPc,             \* position inside generate_face_thumbnails
    tImage,          \* decoded.dimensions
    tBoxes,          \* face_boxes
    tIndex,          \* the loop's index
    tResults,        \* results
    tReturn          \* the MlResult<Vec<Vec<u8>>> returned

thumbnailVars == <<tPc, tImage, tBoxes, tIndex, tResults, tReturn>>

ThumbnailIdle ==
    /\ tPc = "off"
    /\ tImage = [width |-> 0, height |-> 0]
    /\ tBoxes = <<>>
    /\ tIndex = 0
    /\ tResults = <<>>
    /\ tReturn = {}

VARIABLES
    \* ---- face ids (ml/types.rs)
    fPc,             \* position inside to_face_id
    fFileId,         \* file_id
    fBox,            \* box_xyxy
    fId              \* the String returned

faceIdVars == <<fPc, fFileId, fBox, fId>>

FaceIdIdle ==
    /\ fPc = "off"
    /\ fFileId = 0
    /\ fBox = <<0, 0, 0, 0>>
    /\ fId = <<>>

VARIABLES
    \* ---- the model slots of a runtime (ml/runtime.rs)
    slPc,            \* position: the runtime is to be built, built or refused
    slConfig,        \* the MlRuntimeConfig the runtime is built from
    slRuntime,       \* the MlRuntime create_runtime returned, if any
    slSlot,          \* the slot last accessed
    slAccess         \* the MlResult<&mut Session> of that access

slotsVars == <<slPc, slConfig, slRuntime, slSlot, slAccess>>

SlotsIdle ==
    /\ slPc = "off"
    /\ slConfig = [model_paths |-> [face_detection |-> <<>>,
                                    face_embedding |-> <<>>,
                                    clip_image |-> <<>>],
                   provider_policy |-> [prefer_coreml |-> TRUE,
                                        prefer_nnapi |-> TRUE,
                                        prefer_xnnpack |-> FALSE,
                                        allow_cpu_fallback |-> TRUE]]
    /\ slRuntime = {}
    /\ slSlot = "none"
    /\ slAccess = [err |-> [kind |-> "", msg |-> <<>>], session |-> {}]

VARIABLES
    \* ---- building an ONNX session (ml/onnx.rs)
    bPc,             \* position inside build_session
    bModelPath,      \* model_path
    bPolicy,         \* policy
    bAttempts,       \* attempts
    bAt,             \* the loop's position in attempts
    bErrors,         \* errors
    bTried,          \* the constructions attempted so far, with their ends
    bResult          \* the MlResult<Session> returned

sessionVars == <<bPc, bModelPath, bPolicy, bAttempts, bAt, bErrors, bTried,
                 bResult>>

SessionIdle ==
    /\ bPc = "off"
    /\ bModelPath = <<>>
    /\ bPolicy = [prefer_coreml |-> TRUE, prefer_nnapi |-> TRUE,
                  prefer_xnnpack |-> FALSE, allow_cpu_fallback |-> TRUE]
    /\ bAttempts = <<>>
    /\ bAt = 0
    /\ bErrors = <<>>
    /\ bTried = <<>>
    /\ bResult = {}

VARIABLES
    \* ---- the long side of a thumbnail (ml/face/thumbnail.rs)
    lsPc,            \* position inside scaled_long_side
    lsLong,          \* long_side
    lsShort,         \* short_side
    lsScaled         \* the MlResult<u32> returned, None for Err

longSideVars == <<lsPc, lsLong, lsShort, lsScaled>>

LongSideIdle ==
    /\ lsPc = "off"
    /\ lsLong = 0
    /\ lsShort = 0
    /\ lsScaled = {}

VARIABLES
    \* ---- the letterbox of the detector's input (ml/preprocess.rs)
    ppPc,            \* position inside preprocess_yolo
    ppWidth,         \* decoded.dimensions.width
    ppHeight,        \* decoded.dimensions.height
    ppResult         \* the MlResult returned, without the pixel data

preprocessVars == <<ppPc, ppWidth, ppHeight, ppResult>>

PreprocessIdle ==
    /\ ppPc = "off"
    /\ ppWidth = 0
    /\ ppHeight = 0
    /\ ppResult = {}

VARIABLES
    \* ---- the crop of one face (ml/face/thumbnail.rs)
    crPc,            \* position inside the crop step of the thumbnail loop
    crBox,           \* face_box
    crImage,         \* decoded.dimensions
    crResult         \* what the step leaves: the crop or the error of the call

cropVars == <<crPc, crBox, crImage, crResult>>

CropIdle ==
    /\ crPc = "off"
    /\ crBox = {}
    /\ crImage = {}
    /\ crResult = {}

VARIABLES
    \* ---- the filter of a resize (ml/face/thumbnail.rs)
    rfPc,            \* position inside select_resize_filter
    rfCrop,          \* crop.width and crop.height, in hundredths of a pixel
    rfTarget,        \* target_width and target_height
    rfFilter         \* the FilterType returned

filterVars == <<rfPc, rfCrop, rfTarget, rfFilter>>

FilterIdle ==
    /\ rfPc = "off"
    /\ rfCrop = {}
    /\ rfTarget = {}
    /\ rfFilter = {}

VARIABLES
    \* ---- concurrent save_index calls of one process (api/usearch_api.rs)
    svPc,            \* per handle: position inside save_index
    svTmp,           \* per handle: temp_path of its save in progress
    svLast,          \* per handle: temp_path of its last save
    svResult,        \* per handle: what its last save_index returned
    svSaves,         \* per handle: save_index calls so far
    svFile,          \* per handle: the file at its backing path
    svNames          \* the temp paths handed out, in order

saveVars == <<svPc, svTmp, svLast, svResult, svSaves, svFile, svNames>>

SaveIdle ==
    /\ svPc = <<>>
    /\ svTmp = <<>>
    /\ svLast = <<>>
    /\ svResult = <<>>
    /\ svSaves = <<>>
    /\ svFile = <<>>
    /\ svNames = <<>>

VARIABLES
    \* ---- the one-shot registration of the decoder hooks (image/decode.rs)
    onState,         \* IMAGE_DECODER_HOOKS_INIT: the state of the Once
    onPc,            \* per thread: position inside decode_image_from_path
    onDecodes,       \* per thread: decode_image_from_path calls so far
    onRegistrations  \* calls of register_image_decoder_hooks_with_guardrails

onceVars == <<onState, onPc, onDecodes, onRegistrations>>

OnceIdle ==
    /\ onState = "off"
    /\ onPc = <<>>
    /\ onDecodes = <<>>
    /\ onRegistrations = 0

\* the variables of the computations modelled on their own
fnVars == <<detVars, searchVars, thumbnailVars, faceIdVars, slotsVars, sessionVars, longSideVars, preprocessVars, cropVars, filterVars, saveVars, onceVars>>

FnIdle == DetectIdle /\ SearchIdle /\ ThumbnailIdle /\ FaceIdIdle /\ SlotsIdle /\ SessionIdle /\ LongSideIdle /\ PreprocessIdle /\ CropIdle /\ FilterIdle /\ SaveIdle /\ OnceIdle

vars == <<dbVars, rtVars, fnVars>>

\* --------------------------------------------------------------- helpers
Max(a, b) == IF a >= b THEN a ELSE b
Min(a, b) == IF a <= b THEN a ELSE b

SeqsUpTo(S, n) == UNION {[1..m -> S] : m \in 0..n}

\* ------------------------------------------------- the usearch index (library)
IndexContains(idx, k) == \E e \in idx : e[1] = k
IndexGet(idx, k) == (CHOOSE e \in idx : e[1] = k)[2]
IndexKeys(idx) == {e[1] : e \in idx}
IndexSize(idx) == Cardinality(idx)
IndexRemove(idx, k) == {e \in idx : e[1] # k}
\* multi = false: a second value for a key is refused; so is an add beyond capacity
IndexAddAccepts(idx, cap, k) == ~IndexContains(idx, k) /\ IndexSize(idx) < cap
IndexAdd(idx, k, v) == idx \cup {<<k, v>>}
\* reserve never shrinks
IndexReserve(cap, n) == Max(cap, n)

\* what index.save writes and index.load reads back
Snapshot(idx) == [kind |-> "snapshot", entries |-> idx]
Load(file) == file.entries
IsSnapshot(file) == file.kind = "snapshot"

\* ------------------------------------------------------------ file system
\* (variant: a temp path without the sequence number)
TempPathOfProcess(p, seq) == <<p, 0>>

\* path.with_extension("tmp.<pid>.<seq>")
TempPath(p, seq) == <<p, seq>>
TempExists(name) == \E t \in temps : t[1] = name
TempContent(name) == (CHOOSE t \in temps : t[1] = name)[2]
WithoutTemp(ts, name) == {t \in ts : t[1] # name}
WithTemp(ts, name, content) == WithoutTemp(ts, name) \cup {<<name, content>>}

SavePcs == {"save_dir", "save_write", "save_writing", "save_rename"}
Mutators == {"add_vector", "bulk_add_vectors", "remove_vector",
             "bulk_remove_vectors", "reset_index"}

CanFault == faults < MaxFaults
CanCall == calls < MaxCalls

\* ---------------------------------------------------------- ensure_capacity
\* (variant: ensure_capacity reserving the current size only)
EnsureCapacityIgnoringMargin(idx, cap, margin, failReserve) ==
    IF IndexSize(idx) + margin + CapacityHeadroom >= cap
    THEN IF failReserve
         THEN [cap |-> cap, ok |-> FALSE, hit |-> TRUE]
         ELSE [cap |-> IndexReserve(cap, IndexSize(idx)), ok |-> TRUE, hit |-> FALSE]
    ELSE [cap |-> cap, ok |-> TRUE, hit |-> FALSE]

\* [cap, ok]: reserve size + margin when size + margin + 1000 >= capacity
EnsureCapacity(idx, cap, margin, failReserve) ==
    IF IndexSize(idx) + margin + CapacityHeadroom >= cap
    THEN IF failReserve
         THEN [cap |-> cap, ok |-> FALSE, hit |-> TRUE]
         ELSE [cap |-> IndexReserve(cap, IndexSize(idx) + margin), ok |-> TRUE, hit |-> FALSE]
    ELSE [cap |-> cap, ok |-> TRUE, hit |-> FALSE]

\* ------------------------------------------- add_vector, the in-memory part
\* f: the library call that fails ("none", "remove", "reserve", "add")
\* [idx, cap, ok, hit]: hit = the injected failure was reached
AddOne(idx, cap, k, v, f) ==
    IF f = "add"
    THEN [idx |-> idx, cap |-> cap, ok |-> FALSE, hit |-> TRUE]
    ELSE IF IndexAddAccepts(idx, cap, k)
         THEN [idx |-> IndexAdd(idx, k, v), cap |-> cap, ok |-> TRUE, hit |-> FALSE]
         ELSE [idx |-> idx, cap |-> cap, ok |-> FALSE, hit |-> FALSE]

AddVectorMem(idx, cap, k, v, f) ==
    IF IndexContains(idx, k)
    THEN IF f = "remove"
         THEN [idx |-> idx, cap |-> cap, ok |-> FALSE, hit |-> TRUE]
         ELSE AddOne(IndexRemove(idx, k), cap, k, v, f)
    ELSE LET ec == EnsureCapacity(idx, cap, 1, f = "reserve")
         IN  IF ~ec.ok
             THEN [idx |-> idx, cap |-> cap, ok |-> FALSE, hit |-> ec.hit]
             ELSE AddOne(idx, ec.cap, k, v, f)

\* ------------------------------------- bulk_add_vectors, the in-memory part
\* the zip loop from item j on; the library call f fails at item failAt
RECURSIVE BulkAddFrom(_, _, _, _, _, _, _)
BulkAddFrom(idx, cap, ks, vs, j, failAt, f) ==
    IF j > Min(Len(ks), Len(vs))
    THEN [idx |-> idx, cap |-> cap, ok |-> TRUE, hit |-> FALSE]
    ELSE LET here == IF j = failAt THEN f ELSE "none"
             had == IndexContains(idx, ks[j])
         IN  IF had /\ here = "remove"
             THEN [idx |-> idx, cap |-> cap, ok |-> FALSE, hit |-> TRUE]
             ELSE LET r == AddOne(IF had THEN IndexRemove(idx, ks[j]) ELSE idx,
                                  cap, ks[j], vs[j], here)
                  IN  IF r.ok
                      THEN BulkAddFrom(r.idx, cap, ks, vs, j + 1, failAt, f)
                      ELSE r

BulkAddMem(idx, cap, ks, vs, failAt, f) ==
    LET ec == EnsureCapacity(idx, cap, Len(ks), failAt = 0 /\ f = "reserve")
    IN  IF ~ec.ok
        THEN [idx |-> idx, cap |-> cap, ok |-> FALSE, hit |-> ec.hit]
        ELSE BulkAddFrom(idx, ec.cap, ks, vs, 1, failAt, f)

\* ------------------------------------------------ removals, in-memory part
RECURSIVE BulkRemoveFrom(_, _, _, _)
BulkRemoveFrom(idx, ks, j, failAt) ==
    IF j > Len(ks)
    THEN [idx |-> idx, ok |-> TRUE, hit |-> FALSE]
    ELSE IF j = failAt
         THEN [idx |-> idx, ok |-> FALSE, hit |-> TRUE]
         ELSE BulkRemoveFrom(IndexRemove(idx, ks[j]), ks, j + 1, failAt)

\* ------------------------------------------------- history bookkeeping
\* What the calls made on the handle promise about a key: the set of vectors
\* it may hold.
\*   {}       nothing is promised (never added, or its removal was asked for)
\*   {v}      an add of v returned Ok and no later call touched the key
\*   {v, w}   an add of v returned Ok, a later add of w returned Err
NoPromise == {}
NoPromises == [k \in Keys |-> NoPromise]

Range(s) == {s[i] : i \in DOMAIN s}

RECURSIVE ApplyAdds(_, _, _, _)
ApplyAdds(m, ks, vs, j) ==
    IF j > Min(Len(ks), Len(vs)) THEN m
    ELSE ApplyAdds([m EXCEPT ![ks[j]] = {vs[j]}], ks, vs, j + 1)

PromiseAfterOk(m, op, ks, vs) ==
    CASE op \in {"add_vector", "bulk_add_vectors"} -> ApplyAdds(m, ks, vs, 1)
      [] op \in {"remove_vector", "bulk_remove_vectors"} ->
             [k \in Keys |-> IF k \in Range(ks) THEN NoPromise ELSE m[k]]
      [] op = "reset_index" -> NoPromises
      [] OTHER -> m

\* an add that returned Err: the keys it would have changed keep their promise
\* of being present, with either vector
PromiseAfterErr(m, okm) ==
    [k \in Keys |-> IF m[k] = NoPromise THEN NoPromise ELSE m[k] \cup okm[k]]

IsAdd(op) == op \in {"add_vector", "bulk_add_vectors"}

\* --------------------------------------------------------- call endings
\* the call in progress returns Ok or Err
Return(ok) ==
    /\ pc' = "idle"
    /\ result' = IF ok THEN "Ok" ELSE "Err"
    /\ tmp' = NoTemp
    /\ mustHave' = IF ok THEN pending ELSE PromiseAfterErr(mustHave, pending)
    /\ pending' = mustHave'

\* the in-memory part of a mutator is done: return Err now, or go on to
\* save_index
AfterMem(op, ks, vs, ok, hit) ==
    LET okm == PromiseAfterOk(mustHave, op, ks, vs)
    IN  /\ calls' = calls + 1
        /\ injected' = hit
        /\ faults' = IF hit THEN faults + 1 ELSE faults
        /\ tmp' = NoTemp
        /\ IF ok
           THEN /\ pc' = "save_dir"
                /\ result' = "none"
                /\ pending' = okm
                /\ mustHave' = IF IsAdd(op) THEN mustHave ELSE okm
           ELSE /\ pc' = "idle"
                /\ result' = "Err"
                /\ mustHave' = IF IsAdd(op) THEN PromiseAfterErr(mustHave, okm) ELSE okm
                /\ pending' = mustHave'
        /\ closed' = Unknown
        /\ UNCHANGED <<handle, disk, temps, saveCounter, pid, crashes,
                       crashedInSave>>

FaultChoices(fs) == IF CanFault THEN fs \cup {"none"} ELSE {"none"}

\* ------------------------------------------------------------- VectorDB::new
\* the file exists: load it; otherwise create an empty index and save it
New ==
    /\ handle = "none"
    /\ pc = "idle"
    /\ CanCall
    /\ calls' = calls + 1
    /\ handle' = "open"
    /\ injected' = FALSE
    /\ crashedInSave' = FALSE
    /\ IF disk # Absent
       THEN /\ IsSnapshot(disk)
            /\ index' = Load(disk)
            /\ capacity' = IndexReserve(InitialReserve, IndexSize(Load(disk)))
            /\ pc' = "idle"
            /\ result' = "Ok"
       ELSE /\ index' = {}
            /\ capacity' = InitialReserve
            /\ pc' = "save_dir"
            /\ result' = "none"
    /\ UNCHANGED <<disk, temps, saveCounter, pid, tmp, faults, crashes,
                   closed, mustHave, pending>>
    /\ UNCHANGED <<rtVars, fnVars>>

\* ---------------------------------------------------------------- mutators
\* (variant: add_vector returning Ok without calling save_index)
AddVectorNoSave(k, v) ==
    /\ handle = "open" /\ pc = "idle" /\ CanCall
    /\ LET r == AddVectorMem(index, capacity, k, v, "none")
       IN  /\ index' = r.idx
           /\ capacity' = r.cap
           /\ result' = IF r.ok THEN "Ok" ELSE "Err"
           /\ mustHave' = IF r.ok THEN PromiseAfterOk(mustHave, "add_vector", <<k>>, <<v>>)
                          ELSE mustHave
    /\ pending' = mustHave'
    /\ calls' = calls + 1
    /\ injected' = FALSE
    /\ closed' = Unknown
    /\ UNCHANGED <<handle, disk, temps, saveCounter, pid, pc, tmp, faults,
                   crashes, crashedInSave>>
    /\ UNCHANGED <<rtVars, fnVars>>

AddVector(k, v) ==
    /\ handle = "open" /\ pc = "idle" /\ CanCall
    /\ \E f \in FaultChoices({"remove", "reserve", "add"}) :
         LET r == AddVectorMem(index, capacity, k, v, f)
         IN  /\ index' = r.idx
             /\ capacity' = r.cap
             /\ AfterMem("add_vector", <<k>>, <<v>>, r.ok, r.hit)
    /\ UNCHANGED <<rtVars, fnVars>>

BulkAddVectors(ks, vs) ==
    /\ handle = "open" /\ pc = "idle" /\ CanCall
    /\ \E f \in FaultChoices({"remove", "reserve", "add"}) :
       \E failAt \in 0..Len(ks) :
         /\ (f = "none") => (failAt = 0)
         /\ (f = "reserve") <=> (failAt = 0 /\ f # "none")
         /\ LET r == BulkAddMem(index, capacity, ks, vs, failAt, f)
            IN  /\ index' = r.idx
                /\ capacity' = r.cap
                /\ AfterMem("bulk_add_vectors", ks, vs, r.ok, r.hit)
    /\ UNCHANGED <<rtVars, fnVars>>

RemoveVector(k) ==
    /\ handle = "open" /\ pc = "idle" /\ CanCall
    /\ \E failAt \in (IF CanFault THEN {0, 1} ELSE {0}) :
         LET r == BulkRemoveFrom(index, <<k>>, 1, failAt)
         IN  /\ index' = r.idx
             /\ UNCHANGED capacity
             /\ AfterMem("remove_vector", <<k>>, <<>>, r.ok, r.hit)
    /\ UNCHANGED <<rtVars, fnVars>>

BulkRemoveVectors(ks) ==
    /\ handle = "open" /\ pc = "idle" /\ CanCall
    /\ \E failAt \in (IF CanFault THEN 0..Len(ks) ELSE {0}) :
         LET r == BulkRemoveFrom(index, ks, 1, failAt)
         IN  /\ index' = r.idx
             /\ UNCHANGED capacity
             /\ AfterMem("bulk_remove_vectors", ks, <<>>, r.ok, r.hit)
    /\ UNCHANGED <<rtVars, fnVars>>

\* reset, then reserve(1000), then save
ResetIndex ==
    /\ handle = "open" /\ pc = "idle" /\ CanCall
    /\ \E f \in FaultChoices({"reset", "reserve"}) :
         /\ index' = IF f = "reset" THEN index ELSE {}
         /\ capacity' = CASE f = "reset" -> capacity
                          [] f = "reserve" -> 0
                          [] OTHER -> InitialReserve
         /\ AfterMem("reset_index", <<>>, <<>>, f = "none", f # "none")
    /\ UNCHANGED <<rtVars, fnVars>>

\* ------------------------------------------------------------- save_index
\* (variant: index.save writing straight to the backing path)
SaveWriteInPlace(name, content) ==
    /\ disk' = content
    /\ temps' = WithTemp(temps, name, content)

\* where index.save writes
SaveWrite(name, content) ==
    /\ temps' = WithTemp(temps, name, content)
    /\ UNCHANGED disk

\* std::fs::remove_file(&temp_path), its result dropped
RemoveTemp(name) ==
    /\ temps' = WithoutTemp(temps, name)
    /\ UNCHANGED disk

\* a step of save_index fails: the call returns Err
SaveFails ==
    /\ faults' = faults + 1
    /\ injected' = TRUE
    /\ Return(FALSE)

\* create_dir_all(parent), then the temp path from the process-wide counter
SaveDir ==
    /\ pc = "save_dir"
    /\ \E f \in FaultChoices({"dir"}) :
         IF f = "dir"
         THEN /\ SaveFails
              /\ UNCHANGED saveCounter
         ELSE /\ saveCounter' = saveCounter + 1
              /\ tmp' = TempPath(pid, saveCounter)
              /\ pc' = "save_write"
              /\ UNCHANGED <<faults, injected, result, mustHave, pending>>
    /\ UNCHANGED <<handle, index, capacity, disk, temps, pid, calls, crashes,
                   crashedInSave, closed>>
    /\ UNCHANGED <<rtVars, fnVars>>

\* index.save(temp) has created the file and written part of it
SaveWriteBegin ==
    /\ pc = "save_write"
    /\ SaveWrite(tmp, Partial)
    /\ pc' = "save_writing"
    /\ UNCHANGED <<handle, index, capacity, saveCounter, pid, calls, result,
                   tmp, faults, crashes, crashedInSave, closed, mustHave,
                   pending, injected>>
    /\ UNCHANGED <<rtVars, fnVars>>

\* index.save(temp) returns: the file is complete, or it failed and the
\* temp file is removed
SaveWriteEnd ==
    /\ pc = "save_writing"
    /\ \E f \in FaultChoices({"save"}) :
         IF f = "save"
         THEN /\ SaveFails
              /\ RemoveTemp(tmp)
         ELSE /\ SaveWrite(tmp, Snapshot(index))
              /\ pc' = "save_rename"
              /\ UNCHANGED <<faults, injected, result, tmp, mustHave, pending>>
    /\ UNCHANGED <<handle, index, capacity, saveCounter, pid, calls, crashes,
                   crashedInSave, closed>>
    /\ UNCHANGED <<rtVars, fnVars>>

\* std::fs::rename(temp, path): atomic; on failure the temp file is removed
SaveRename ==
    /\ pc = "save_rename"
    /\ \E f \in FaultChoices({"rename"}) :
         IF f = "rename"
         THEN /\ SaveFails
              /\ RemoveTemp(tmp)
         ELSE /\ disk' = TempContent(tmp)
              /\ temps' = WithoutTemp(temps, tmp)
              /\ UNCHANGED <<faults, injected>>
              /\ Return(TRUE)
    /\ UNCHANGED <<handle, index, capacity, saveCounter, pid, calls, crashes,
                   crashedInSave, closed>>
    /\ UNCHANGED <<rtVars, fnVars>>

\* ------------------------------------------------- handle and process ends
\* the VectorDB value is dropped; the process goes on
Close ==
    /\ handle = "open" /\ pc = "idle"
    /\ handle' = "none"
    /\ closed' = IF result = "Ok" THEN Known(index) ELSE Unknown
    /\ index' = {}
    /\ capacity' = 0
    /\ result' = "none"
    /\ mustHave' = NoPromises
    /\ pending' = NoPromises
    /\ UNCHANGED <<disk, temps, saveCounter, pid, calls, pc, tmp, faults, crashes,
                   crashedInSave, injected>>
    /\ UNCHANGED <<rtVars, fnVars>>

\* delete_index(self): remove the backing file, consume the handle
DeleteIndex ==
    /\ handle = "open" /\ pc = "idle"
    /\ handle' = "none"
    /\ disk' = Absent
    /\ closed' = Unknown
    /\ index' = {}
    /\ capacity' = 0
    /\ result' = "Ok"
    /\ mustHave' = NoPromises
    /\ pending' = NoPromises
    /\ UNCHANGED <<temps, saveCounter, pid, calls, pc, tmp, faults, crashes,
                   crashedInSave, injected>>
    /\ UNCHANGED <<rtVars, fnVars>>

\* the process stops at any point; files stay, memory and the counter go
Crash ==
    /\ handle = "open"
    /\ crashes < MaxCrashes
    /\ crashes' = crashes + 1
    /\ crashedInSave' = (pc \in SavePcs)
    /\ handle' = "none"
    /\ index' = {}
    /\ capacity' = 0
    /\ saveCounter' = 0
    /\ pid' \in {pid, pid + 1}
    /\ pc' = "idle"
    /\ result' = "none"
    /\ tmp' = NoTemp
    /\ closed' = Unknown
    /\ mustHave' = NoPromises
    /\ pending' = NoPromises
    /\ injected' = FALSE
    /\ UNCHANGED <<disk, temps, faults, calls>>
    /\ UNCHANGED <<rtVars, fnVars>>

\* -------------------------------------------------------- specification
InitDB ==
    /\ handle = "none"
    /\ index = {}
    /\ capacity = 0
    /\ disk = Absent
    /\ temps = {}
    /\ saveCounter = 0
    /\ pid = 1
    /\ calls = 0
    /\ pc = "idle"
    /\ result = "none"
    /\ tmp = NoTemp
    /\ faults = 0
    /\ crashes = 0
    /\ crashedInSave = FALSE
    /\ closed = Unknown
    /\ mustHave = NoPromises
    /\ pending = NoPromises
    /\ injected = FALSE

NextDB ==
    \/ New
    \/ \E k \in Keys, v \in Vectors : AddVector(k, v)
    \/ \E ks \in SeqsUpTo(Keys, MaxBulk), vs \in SeqsUpTo(Vectors, MaxBulk) :
          BulkAddVectors(ks, vs)
    \/ \E k \in Keys : RemoveVector(k)
    \/ \E ks \in SeqsUpTo(Keys, MaxBulk) : BulkRemoveVectors(ks)
    \/ ResetIndex
    \/ SaveDir
    \/ SaveWriteBegin
    \/ SaveWriteEnd
    \/ SaveRename
    \/ Close
    \/ DeleteIndex
    \/ Crash

\* ======================================================================
\* The ML runtime registry (ml/runtime.rs) and the analysis orchestrator
\* (api/ml_indexing_api.rs)
\* ======================================================================

\* ------------------------------------------------------------------ bounds
MaxThreads == 2
MaxFaces == 1
MaxFileId == 2

Threads == 1..MaxThreads
FileIds == 1..MaxFileId
Targets == {"android", "other"}

\* ------------------------------------------------------- Option<T> as a set
None == {}
Some(x) == {x}
Unwrap(o) == CHOOSE x \in o : TRUE

NoOwner == 0

\* ------------------------------------------------------------------ strings
\* A path is a sequence of characters; Space is the whitespace character.
Space == " "
ModelFile == "m"

RECURSIVE TrimStart(_)
TrimStart(s) ==
    IF s # <<>> /\ Head(s) = Space THEN TrimStart(Tail(s)) ELSE s

RECURSIVE TrimEnd(_)
TrimEnd(s) ==
    IF s # <<>> /\ s[Len(s)] = Space
    THEN TrimEnd(SubSeq(s, 1, Len(s) - 1))
    ELSE s

Trim(s) == TrimEnd(TrimStart(s))

\* ------------------------------------------------------------------- errors
MlError(kind, msg) == [kind |-> kind, msg |-> msg]
NoError == MlError("", <<>>)
PanicPayload == MlError("panic", <<>>)
NotInitialized == MlError("Runtime", <<"runtime is not initialized">>)
NoProvider ==
    MlError("InvalidRequest", <<"no supported execution provider selected">>)
SessionFailed == MlError("Ort", <<"failed to create ONNX session">>)
MissingModelPath(name) ==
    MlError("InvalidRequest", <<"missing model path", name>>)
MissingRequired(missing) ==
    MlError("InvalidRequest", <<"missing required model paths">> \o missing)
StageError(kind, stage) == MlError(kind, <<stage>>)

\* ------------------------------------------------- requests and configurations
DefaultPolicy ==
    [prefer_coreml |-> TRUE, prefer_nnapi |-> TRUE, prefer_xnnpack |-> FALSE,
     allow_cpu_fallback |-> TRUE]

\* the default policy, each flag flipped alone, and no accelerator with no
\* CPU fallback
Policies ==
    { DefaultPolicy,
      [DefaultPolicy EXCEPT !.prefer_coreml = FALSE],
      [DefaultPolicy EXCEPT !.prefer_nnapi = FALSE],
      [DefaultPolicy EXCEPT !.prefer_xnnpack = TRUE],
      [DefaultPolicy EXCEPT !.allow_cpu_fallback = FALSE],
      [DefaultPolicy EXCEPT !.prefer_nnapi = FALSE, !.allow_cpu_fallback = FALSE] }

ModelPaths(fd, fe, ci) ==
    [face_detection |-> fd, face_embedding |-> fe, clip_image |-> ci]

\* every combination of given and empty paths, and each path once as
\* whitespace only
PathSets ==
    { ModelPaths(fd, fe, ci) : fd \in {<<>>, <<ModelFile>>},
                               fe \in {<<>>, <<ModelFile>>},
                               ci \in {<<>>, <<ModelFile>>} }
    \cup { ModelPaths(<<Space>>, <<ModelFile>>, <<ModelFile>>),
           ModelPaths(<<ModelFile>>, <<Space>>, <<ModelFile>>),
           ModelPaths(<<ModelFile>>, <<ModelFile>>, <<Space>>) }

NoRequest ==
    [file_id |-> 0, run_faces |-> FALSE, run_clip |-> FALSE,
     model_paths |-> ModelPaths(<<>>, <<>>, <<>>),
     provider_policy |-> DefaultPolicy]

MlRuntimeConfig(paths, policy) ==
    [model_paths |-> paths, provider_policy |-> policy]

NoConfig == MlRuntimeConfig(NoRequest.model_paths, NoRequest.provider_policy)

AllModels == ModelPaths(<<ModelFile>>, <<ModelFile>>, <<ModelFile>>)
FaceModels == ModelPaths(<<ModelFile>>, <<ModelFile>>, <<>>)

\* the configurations callers pass: every policy with all models given, and
\* every path set with the default policy
Configs ==
    { MlRuntimeConfig(AllModels, p) : p \in Policies }
    \cup { MlRuntimeConfig(ps, DefaultPolicy) : ps \in PathSets }

Requests ==
    { [file_id |-> f, run_faces |-> rf, run_clip |-> rc,
       model_paths |-> c.model_paths, provider_policy |-> c.provider_policy] :
          f \in FileIds, rf \in BOOLEAN, rc \in BOOLEAN, c \in Configs }

\* the inputs of the concurrent specification: two analyses whose configs
\* differ, one that runs no inference stage, and one that fails validation
ConcurrentRequests ==
    { r \in Requests :
        /\ r.provider_policy = DefaultPolicy
        /\ \/ r.file_id = 1 /\ r.run_faces /\ r.run_clip /\ r.model_paths = AllModels
           \/ r.file_id = 2 /\ r.run_faces /\ ~r.run_clip /\ r.model_paths = FaceModels
           \/ r.file_id = 2 /\ r.run_faces /\ r.run_clip /\ r.model_paths = FaceModels
           \/ r.file_id = 1 /\ ~r.run_faces /\ ~r.run_clip /\ r.model_paths = AllModels }

ConcurrentConfigs == { MlRuntimeConfig(FaceModels, DefaultPolicy) }

\* to_model_paths, to_provider_policy: field-by-field copies
to_model_paths(paths) ==
    ModelPaths(paths.face_detection, paths.face_embedding, paths.clip_image)

to_provider_policy(policy) ==
    [prefer_coreml |-> policy.prefer_coreml,
     prefer_nnapi |-> policy.prefer_nnapi,
     prefer_xnnpack |-> policy.prefer_xnnpack,
     allow_cpu_fallback |-> policy.allow_cpu_fallback]

to_runtime_config(c) ==
    MlRuntimeConfig(to_model_paths(c.model_paths),
                    to_provider_policy(c.provider_policy))

\* validate_request_model_paths: the names it pushes, in order
validate_without_trim(r) ==
    (IF r.run_faces /\ r.model_paths.face_detection = <<>>
     THEN <<"faceDetectionModelPath">> ELSE <<>>)
    \o (IF r.run_faces /\ r.model_paths.face_embedding = <<>>
        THEN <<"faceEmbeddingModelPath">> ELSE <<>>)
    \o (IF r.run_clip /\ r.model_paths.clip_image = <<>>
        THEN <<"clipImageModelPath">> ELSE <<>>)

validate_request_model_paths(r) ==
    (IF r.run_faces /\ Trim(r.model_paths.face_detection) = <<>>
     THEN <<"faceDetectionModelPath">> ELSE <<>>)
    \o (IF r.run_faces /\ Trim(r.model_paths.face_embedding) = <<>>
        THEN <<"faceEmbeddingModelPath">> ELSE <<>>)
    \o (IF r.run_clip /\ Trim(r.model_paths.clip_image) = <<>>
        THEN <<"clipImageModelPath">> ELSE <<>>)

\* ------------------------------------------------------------ ml/onnx.rs
CpuOnlyPolicy ==
    [prefer_coreml |-> FALSE, prefer_nnapi |-> FALSE, prefer_xnnpack |-> FALSE,
     allow_cpu_fallback |-> TRUE]

providers_for_policy(policy, include_xnnpack) ==
    (IF target = "android" /\ policy.prefer_nnapi THEN <<"NNAPI">> ELSE <<>>)
    \o (IF policy.allow_cpu_fallback
        THEN (IF include_xnnpack /\ policy.prefer_xnnpack
              THEN <<"XNNPACK">> ELSE <<>>) \o <<"CPU">>
        ELSE <<>>)

AttemptsCpuOnlyFirst(policy) ==
    (IF policy.allow_cpu_fallback
     THEN <<providers_for_policy(CpuOnlyPolicy, FALSE)>> ELSE <<>>)
    \o <<providers_for_policy(policy, TRUE)>>
    \o (IF policy.allow_cpu_fallback /\ policy.prefer_xnnpack
        THEN <<providers_for_policy(policy, FALSE)>> ELSE <<>>)

Attempts(policy) ==
    <<providers_for_policy(policy, TRUE)>>
    \o (IF policy.allow_cpu_fallback /\ policy.prefer_xnnpack
        THEN <<providers_for_policy(policy, FALSE)>> ELSE <<>>)
    \o (IF policy.allow_cpu_fallback
        THEN <<providers_for_policy(CpuOnlyPolicy, FALSE)>> ELSE <<>>)

Session(model_path) == [model |-> model_path]

\* build_session: `loads` says whether ONNX Runtime can create a session from
\* the model file with one of the attempted provider lists
build_session(model_path, policy, loads) ==
    LET tried == {i \in DOMAIN Attempts(policy) : Attempts(policy)[i] # <<>>}
    IN  IF tried # {} /\ loads
        THEN [ok |-> TRUE, err |-> NoError, session |-> Some(Session(model_path))]
        ELSE IF tried = {}
        THEN [ok |-> FALSE, err |-> NoProvider, session |-> None]
        ELSE [ok |-> FALSE, err |-> SessionFailed, session |-> None]

\* ---------------------------------------------------------- ml/runtime.rs
build_optional_session_without_trim(model_path, policy, loads) ==
    IF model_path = <<>>
    THEN [ok |-> TRUE, err |-> NoError, session |-> None]
    ELSE build_session(model_path, policy, loads)

build_optional_session(model_path, policy, loads) ==
    IF Trim(model_path) = <<>>
    THEN [ok |-> TRUE, err |-> NoError, session |-> None]
    ELSE build_session(model_path, policy, loads)

MlRuntime(fd, fe, ci) ==
    [face_detection |-> fd, face_embedding |-> fe, clip_image |-> ci]

create_runtime(c, loads) ==
    LET fd == build_optional_session(c.model_paths.face_detection,
                                     c.provider_policy, loads)
        fe == build_optional_session(c.model_paths.face_embedding,
                                     c.provider_policy, loads)
        ci == build_optional_session(c.model_paths.clip_image,
                                     c.provider_policy, loads)
    IN  IF ~fd.ok THEN [ok |-> FALSE, err |-> fd.err, runtime |-> None]
        ELSE IF ~fe.ok THEN [ok |-> FALSE, err |-> fe.err, runtime |-> None]
        ELSE IF ~ci.ok THEN [ok |-> FALSE, err |-> ci.err, runtime |-> None]
        ELSE [ok |-> TRUE, err |-> NoError,
              runtime |-> Some(MlRuntime(fd.session, fe.session, ci.session))]

RuntimeState(c, runtime) == [config |-> c, runtime |-> runtime]

\* lock_runtime: what the guard holds once the lock is taken
lock_runtime == IF poisoned THEN None ELSE GLOBAL_RUNTIME

face_detection_session_mut(runtime) ==
    IF runtime.face_detection = None
    THEN MissingModelPath("faceDetectionModelPath") ELSE NoError

face_embedding_session_mut(runtime) ==
    IF runtime.face_embedding = None
    THEN MissingModelPath("faceEmbeddingModelPath") ELSE NoError

clip_image_session_mut(runtime) ==
    IF runtime.clip_image = None
    THEN MissingModelPath("clipImageModelPath") ELSE NoError

\* ------------------------------------------------------------ call endings
NoOutcome ==
    [tag |-> "none", err |-> NoError, file_id |-> 0, faces |-> None,
     clip |-> None]

Failed(e) == [NoOutcome EXCEPT !.tag = "Err", !.err = e]
Panicked == [NoOutcome EXCEPT !.tag = "panic", !.err = PanicPayload]
Succeeded == [NoOutcome EXCEPT !.tag = "Ok"]

Step(stage, e) == [stage |-> stage, err |-> e]

\* what a stage of the closure can do: return Ok (the detector with a number
\* of faces), return one of its errors, or panic
StageErrors(stage) ==
    IF stage = "align"
    THEN {StageError("Preprocess", stage), StageError("Postprocess", stage)}
    ELSE {StageError("Preprocess", stage), StageError("Ort", stage),
          StageError("Postprocess", stage)}

StageResults(stage) ==
    { [tag |-> "Ok", err |-> NoError, n |-> n] :
          n \in (IF stage = "detect" THEN 0..MaxFaces ELSE {0}) }
    \cup { [tag |-> "Err", err |-> e, n |-> 0] : e \in StageErrors(stage) }
    \cup { [tag |-> "panic", err |-> PanicPayload, n |-> 0] }

\* the error of a stage that preprocesses, then fetches its session, then runs
WithSession(res, sessionError) ==
    IF res.tag = "panic" THEN res
    ELSE IF res.err.kind = "Preprocess" THEN res
    ELSE IF sessionError # NoError
    THEN [tag |-> "Err", err |-> sessionError, n |-> 0]
    ELSE res

\* the runtime the closure works on: the one inside the guard
GuardedRuntime == Unwrap(GLOBAL_RUNTIME).runtime

\* the call of thread t returns `o`
Returns(t, o) ==
    /\ callPc' = [callPc EXCEPT ![t] = "returned"]
    /\ outcome' = [outcome EXCEPT ![t] = o]

\* a stage of thread t's closure ends the closure: the guard is dropped, and a
\* panic poisons the mutex on its way out
ClosureEnds(t, stage, res) ==
    /\ Returns(t, IF res.tag = "panic" THEN Panicked ELSE Failed(res.err))
    /\ trace' = [trace EXCEPT ![t] = Append(@, Step(stage, res.err))]
    /\ lockOwner' = NoOwner
    /\ poisoned' = (poisoned \/ res.tag = "panic")
    /\ stale' = (stale \/ res.tag = "panic")
    /\ UNCHANGED <<target, GLOBAL_RUNTIME, apiCall, req, config, built, detections>>

\* a stage of thread t's closure returned Ok and the closure goes on at `next`
ClosureGoesOn(t, stage, next) ==
    /\ callPc' = [callPc EXCEPT ![t] = next]
    /\ trace' = [trace EXCEPT ![t] = Append(@, Step(stage, NoError))]
    /\ UNCHANGED <<target, GLOBAL_RUNTIME, poisoned, lockOwner, apiCall, req, config,
                   built, stale>>

AfterFaces(r) == IF r.run_clip THEN "clip" ELSE "result"

FirstStageClipFirst(r) ==
    IF r.run_clip THEN "clip" ELSE IF r.run_faces THEN "detect" ELSE "result"

FirstStage(r) == IF r.run_faces THEN "detect" ELSE AfterFaces(r)

\* --------------------------------------------------- api/ml_indexing_api.rs
\* analyze_image_rust up to the call of with_runtime_mut: validation, the
\* runtime config, and the decoding of the image (`decodes`: whether the file
\* at image_path can be decoded)
AnalyzeImage(t, r, decodes) ==
    LET missing == validate_request_model_paths(r)
        e == IF missing # <<>> THEN MissingRequired(missing)
             ELSE IF ~decodes THEN StageError("Decode", "decode")
             ELSE NoError
    IN  /\ callPc[t] = "idle"
        /\ apiCall' = [apiCall EXCEPT ![t] = "analyze_image"]
        /\ req' = [req EXCEPT ![t] = r]
        /\ config' = [config EXCEPT ![t] =
               MlRuntimeConfig(to_model_paths(r.model_paths),
                               to_provider_policy(r.provider_policy))]
        /\ detections' = [detections EXCEPT ![t] = 0]
        /\ trace' = [trace EXCEPT ![t] =
               IF missing # <<>> THEN <<Step("validate", e)>>
               ELSE <<Step("validate", NoError), Step("decode", e)>>]
        /\ IF e # NoError
           THEN Returns(t, Failed(e))
           ELSE /\ callPc' = [callPc EXCEPT ![t] = "ensure_check"]
                /\ outcome' = [outcome EXCEPT ![t] = NoOutcome]
        /\ UNCHANGED stale
    /\ UNCHANGED <<target, GLOBAL_RUNTIME, poisoned, lockOwner, built>>
        /\ UNCHANGED <<dbVars, fnVars>>

\* init_ml_runtime up to the first lock of ensure_runtime
InitMlRuntime(t, c) ==
    /\ callPc[t] = "idle"
    /\ apiCall' = [apiCall EXCEPT ![t] = "init_ml_runtime"]
    /\ req' = [req EXCEPT ![t] = NoRequest]
    /\ config' = [config EXCEPT ![t] = to_runtime_config(c)]
    /\ detections' = [detections EXCEPT ![t] = 0]
    /\ trace' = [trace EXCEPT ![t] = <<>>]
    /\ callPc' = [callPc EXCEPT ![t] = "ensure_check"]
    /\ outcome' = [outcome EXCEPT ![t] = NoOutcome]
    /\ UNCHANGED stale
    /\ UNCHANGED <<target, GLOBAL_RUNTIME, poisoned, lockOwner, built>>
    /\ UNCHANGED <<dbVars, fnVars>>

\* release_ml_runtime: release_runtime takes the lock and empties the registry
ReleaseMlRuntime(t) ==
    /\ callPc[t] = "idle"
    /\ lockOwner = NoOwner
    /\ GLOBAL_RUNTIME' = None
    /\ apiCall' = [apiCall EXCEPT ![t] = "release_ml_runtime"]
    /\ req' = [req EXCEPT ![t] = NoRequest]
    /\ detections' = [detections EXCEPT ![t] = 0]
    /\ trace' = [trace EXCEPT ![t] = <<Step("release_runtime", NoError)>>]
    /\ config' = [config EXCEPT ![t] = NoConfig]
    /\ Returns(t, Succeeded)
    /\ stale' = FALSE
    /\ UNCHANGED <<target, poisoned, lockOwner, built>>
    /\ UNCHANGED <<dbVars, fnVars>>

\* ---------------------------------------------------------- ensure_runtime
\* ensure_runtime returned Ok: init_ml_runtime returns, with_runtime_mut goes
\* on to take the lock again
EnsureReturns(t) ==
    /\ trace' = [trace EXCEPT ![t] = Append(@, Step("ensure_runtime", NoError))]
    /\ IF apiCall[t] = "init_ml_runtime"
       THEN Returns(t, Succeeded)
       ELSE /\ callPc' = [callPc EXCEPT ![t] = "with_lock"]
            /\ UNCHANGED outcome

\* the first block of ensure_runtime: lock, compare, unlock
EnsureCheck(t) ==
    /\ callPc[t] = "ensure_check"
    /\ lockOwner = NoOwner
    /\ LET guard == lock_runtime
           should_rebuild ==
               IF guard = None THEN TRUE ELSE Unwrap(guard).config # config[t]
       IN  /\ GLOBAL_RUNTIME' = guard
           /\ IF should_rebuild
              THEN /\ callPc' = [callPc EXCEPT ![t] = "create"]
                   /\ UNCHANGED <<outcome, trace>>
              ELSE EnsureReturns(t)
    /\ stale' = FALSE
    /\ UNCHANGED <<target, poisoned, lockOwner, apiCall, req, config, built,
                   detections>>
    /\ UNCHANGED <<dbVars, fnVars>>

\* create_runtime, outside the lock
CreateRuntime(t, loads) ==
    /\ callPc[t] = "create"
    /\ LET r == create_runtime(config[t], loads)
       IN  IF r.ok
           THEN /\ built' = [built EXCEPT ![t] = r.runtime]
                /\ callPc' = [callPc EXCEPT ![t] = "install"]
                /\ UNCHANGED <<outcome, trace>>
           ELSE /\ Returns(t, Failed(r.err))
                /\ trace' = [trace EXCEPT ![t] =
                       Append(@, Step("ensure_runtime", r.err))]
                /\ UNCHANGED built
    /\ UNCHANGED stale
    /\ UNCHANGED <<target, GLOBAL_RUNTIME, poisoned, lockOwner, apiCall, req, config,
                   detections>>
    /\ UNCHANGED <<dbVars, fnVars>>

\* the second block of ensure_runtime: lock, install, unlock
Install(t) ==
    /\ callPc[t] = "install"
    /\ lockOwner = NoOwner
    /\ GLOBAL_RUNTIME' = Some(RuntimeState(config[t], Unwrap(built[t])))
    /\ built' = [built EXCEPT ![t] = None]
    /\ EnsureReturns(t)
    /\ stale' = FALSE
    /\ UNCHANGED <<target, poisoned, lockOwner, apiCall, req, config, detections>>
    /\ UNCHANGED <<dbVars, fnVars>>

\* -------------------------------------------------------- with_runtime_mut
\* with_runtime_mut after ensure_runtime: lock, and enter the closure with the
\* runtime found there, or return the Runtime error when there is none
WithRuntimeLockNoMutex(t) ==
    /\ callPc[t] = "with_lock"
    /\ LET guard == lock_runtime
       IN  /\ GLOBAL_RUNTIME' = guard
           /\ IF guard = None
              THEN /\ Returns(t, Failed(NotInitialized))
                   /\ trace' = [trace EXCEPT ![t] =
                          Append(@, Step("with_runtime_mut", NotInitialized))]
                   /\ UNCHANGED lockOwner
              ELSE /\ lockOwner' = t
                   /\ callPc' = [callPc EXCEPT ![t] = FirstStage(req[t])]
                   /\ trace' = [trace EXCEPT ![t] =
                          Append(@, Step("with_runtime_mut", NoError))]
                   /\ UNCHANGED outcome
    /\ stale' = FALSE
    /\ UNCHANGED <<target, poisoned, apiCall, req, config, built, detections>>
    /\ UNCHANGED <<dbVars, fnVars>>

WithRuntimeLock(t) ==
    /\ callPc[t] = "with_lock"
    /\ lockOwner = NoOwner
    /\ LET guard == lock_runtime
       IN  /\ GLOBAL_RUNTIME' = guard
           /\ IF guard = None
              THEN /\ Returns(t, Failed(NotInitialized))
                   /\ trace' = [trace EXCEPT ![t] =
                          Append(@, Step("with_runtime_mut", NotInitialized))]
                   /\ UNCHANGED lockOwner
              ELSE /\ lockOwner' = t
                   /\ callPc' = [callPc EXCEPT ![t] = FirstStage(req[t])]
                   /\ trace' = [trace EXCEPT ![t] =
                          Append(@, Step("with_runtime_mut", NoError))]
                   /\ UNCHANGED outcome
    /\ stale' = FALSE
    /\ UNCHANGED <<target, poisoned, apiCall, req, config, built, detections>>
    /\ UNCHANGED <<dbVars, fnVars>>

\* ------------------------------------------- the closure of analyze_image
Detect(t, res) ==
    /\ callPc[t] = "detect"
    /\ lockOwner = t
    /\ LET r == WithSession(res, face_detection_session_mut(GuardedRuntime))
       IN  IF r.tag # "Ok" THEN ClosureEnds(t, "detect", r)
           ELSE /\ detections' = [detections EXCEPT ![t] = r.n]
                /\ IF r.n = 0
                   THEN /\ outcome' = [outcome EXCEPT ![t].faces = Some(<<>>)]
                        /\ ClosureGoesOn(t, "detect", AfterFaces(req[t]))
                   ELSE /\ UNCHANGED outcome
                        /\ ClosureGoesOn(t, "detect", "align")
    /\ UNCHANGED <<dbVars, fnVars>>

Align(t, res) ==
    /\ callPc[t] = "align"
    /\ lockOwner = t
    /\ IF res.tag # "Ok" THEN ClosureEnds(t, "align", res)
       ELSE /\ UNCHANGED <<outcome, detections>>
            /\ ClosureGoesOn(t, "align", "embed")
    /\ UNCHANGED <<dbVars, fnVars>>

Embed(t, res) ==
    /\ callPc[t] = "embed"
    /\ lockOwner = t
    /\ LET r == WithSession(res, face_embedding_session_mut(GuardedRuntime))
       IN  IF r.tag # "Ok" THEN ClosureEnds(t, "embed", r)
           ELSE /\ outcome' = [outcome EXCEPT ![t].faces =
                       Some([i \in 1..detections[t] |-> i])]
                /\ UNCHANGED detections
                /\ ClosureGoesOn(t, "embed", AfterFaces(req[t]))
    /\ UNCHANGED <<dbVars, fnVars>>

Clip(t, res) ==
    /\ callPc[t] = "clip"
    /\ lockOwner = t
    /\ LET r == WithSession(res, clip_image_session_mut(GuardedRuntime))
       IN  IF r.tag # "Ok" THEN ClosureEnds(t, "clip", r)
           ELSE /\ outcome' = [outcome EXCEPT ![t].clip = Some("embedding")]
                /\ UNCHANGED detections
                /\ ClosureGoesOn(t, "clip", "result")
    /\ UNCHANGED <<dbVars, fnVars>>

\* the closure's Ok(AnalyzeImageResult { .. }); the guard is dropped
FinishDroppingEmptyFaces(t) ==
    /\ callPc[t] = "result"
    /\ lockOwner = t
    /\ Returns(t, [outcome[t] EXCEPT !.tag = "Ok", !.file_id = req[t].file_id,
                       !.faces = IF @ = Some(<<>>) THEN None ELSE @])
    /\ lockOwner' = NoOwner
    /\ UNCHANGED stale
    /\ UNCHANGED <<target, GLOBAL_RUNTIME, poisoned, apiCall, req, config, built,
                   detections, trace>>
    /\ UNCHANGED <<dbVars, fnVars>>

Finish(t) ==
    /\ callPc[t] = "result"
    /\ lockOwner = t
    /\ Returns(t, [outcome[t] EXCEPT !.tag = "Ok", !.file_id = req[t].file_id])
    /\ lockOwner' = NoOwner
    /\ UNCHANGED stale
    /\ UNCHANGED <<target, GLOBAL_RUNTIME, poisoned, apiCall, req, config, built,
                   detections, trace>>
    /\ UNCHANGED <<dbVars, fnVars>>

\* the caller has the result; the call's request and locals are gone
CallEnds(t) ==
    /\ callPc[t] = "returned"
    /\ callPc' = [callPc EXCEPT ![t] = "idle"]
    /\ apiCall' = [apiCall EXCEPT ![t] = "none"]
    /\ req' = [req EXCEPT ![t] = NoRequest]
    /\ config' = [config EXCEPT ![t] = NoConfig]
    /\ detections' = [detections EXCEPT ![t] = 0]
    /\ outcome' = [outcome EXCEPT ![t] = NoOutcome]
    /\ trace' = [trace EXCEPT ![t] = <<>>]
    /\ UNCHANGED stale
    /\ UNCHANGED <<target, GLOBAL_RUNTIME, poisoned, lockOwner, built>>
    /\ UNCHANGED <<dbVars, fnVars>>

\* ------------------------------------------------------- specifications
InitRuntime ==
    /\ target \in Targets
    /\ GLOBAL_RUNTIME = None
    /\ poisoned = FALSE
    /\ lockOwner = NoOwner
    /\ callPc = [t \in Threads |-> "idle"]
    /\ apiCall = [t \in Threads |-> "none"]
    /\ req = [t \in Threads |-> NoRequest]
    /\ config = [t \in Threads |-> NoConfig]
    /\ built = [t \in Threads |-> None]
    /\ detections = [t \in Threads |-> 0]
    /\ outcome = [t \in Threads |-> NoOutcome]
    /\ trace = [t \in Threads |-> <<>>]
    /\ stale = FALSE

\* what thread t can do, its inputs drawn from `requests` and `configs`
ThreadStep(t, requests, configs) ==
    \/ \E r \in requests, decodes \in BOOLEAN : AnalyzeImage(t, r, decodes)
    \/ \E c \in configs : InitMlRuntime(t, c)
    \/ ReleaseMlRuntime(t)
    \/ EnsureCheck(t)
    \/ \E loads \in BOOLEAN : CreateRuntime(t, loads)
    \/ Install(t)
    \/ WithRuntimeLock(t)
    \/ \E res \in StageResults("detect") : Detect(t, res)
    \/ \E res \in StageResults("align") : Align(t, res)
    \/ \E res \in StageResults("embed") : Embed(t, res)
    \/ \E res \in StageResults("clip") : Clip(t, res)
    \/ Finish(t)
    \/ CallEnds(t)

Init == InitDB /\ InitRuntime /\ FnIdle

\* the vector index alone, on one platform
InitVectorDB == Init /\ target = "other"
SpecVectorDB == InitVectorDB /\ [][NextDB]_vars

\* concurrent callers of the ML API
NextRuntime ==
    \E t \in Threads : ThreadStep(t, ConcurrentRequests, ConcurrentConfigs)
SpecRuntime == Init /\ [][NextRuntime]_vars

\* one caller of the ML API, every request and every config
NextSingle == ThreadStep(1, Requests, Configs)
SpecSingle == Init /\ [][NextSingle]_vars

\* ------------------------------------------------------------ properties
SameContents(a, b) ==
    /\ IndexSize(a) = IndexSize(b)
    /\ IndexKeys(a) = IndexKeys(b)
    /\ \A k \in IndexKeys(a) : IndexGet(a, k) = IndexGet(b, k)

Idle == handle = "open" /\ pc = "idle"

\* C1: when the last call on the handle returned Ok, the backing file is a
\* complete snapshot that loads to exactly the in-memory contents (same size,
\* same keys, same vector per key); a handle dropped in that state and opened
\* again with VectorDB::new holds the contents it had when it was dropped.
C1_OkMeansPersisted ==
    /\ (Idle /\ result = "Ok") =>
          (IsSnapshot(disk) /\ SameContents(Load(disk), index))
    /\ (handle = "none" /\ closed.known) =>
          (IsSnapshot(disk) /\ SameContents(Load(disk), closed.idx))
    /\ (Idle /\ closed.known) => SameContents(index, closed.idx)

\* two keys were bulk-added, the handle dropped and the file opened again
C1_Witness ==
    Idle /\ closed.known /\ result = "Ok" /\ IndexSize(index) = 2

\* C2: the backing file never holds part of a snapshot, and it changes only
\* by the rename at the end of save_index, to the whole snapshot of the index
\* being saved (or by delete_index, to no file); a process stop at any point
\* of save_index therefore leaves the previous file or the new one.
C2_AtomicReplace ==
    /\ [](disk.kind # "partial")
    /\ [][disk' # disk =>
            \/ (pc = "save_rename" /\ pc' = "idle" /\ disk' = Snapshot(index))
            \/ (Idle /\ handle' = "none" /\ disk' = Absent)]_vars

\* the process stopped inside save_index with a partly written temp file
\* beside a complete backing file that holds a key
C2_Witness ==
    /\ crashedInSave
    /\ \E t \in temps : t[2] = Partial
    /\ IsSnapshot(disk) /\ Load(disk) # {}

\* C3: at most one value per key; between calls every key whose add returned
\* Ok, and whose removal was not asked for since, is in the index, with the
\* vector of that add unless a later add of the key returned Err; so size is
\* at least the number of such keys.
C3_OneValuePerKeyReplaced ==
    /\ \A k \in Keys : Cardinality({e \in index : e[1] = k}) <= 1
    /\ Idle =>
         /\ \A k \in Keys :
               mustHave[k] # NoPromise =>
                   (IndexContains(index, k) /\ IndexGet(index, k) \in mustHave[k])
         /\ IndexSize(index) >= Cardinality({k \in Keys : mustHave[k] # NoPromise})

\* the same, as long as no library or OS call has failed: then no call
\* returns Err either
ReplaceWithoutFailures ==
    (faults = 0) => (C3_OneValuePerKeyReplaced /\ result # "Err")

\* ------------------------------------- properties of the runtime registry
ClosurePcs == {"detect", "align", "embed", "clip", "result"}
InClosure(t) == callPc[t] \in ClosurePcs
Returned(t) == callPc[t] = "returned"
Analysis(t) == apiCall[t] = "analyze_image"
Ran(t, stage) == \E i \in DOMAIN trace[t] : trace[t][i].stage = stage
RanOk(t, stage) ==
    \E i \in DOMAIN trace[t] :
        trace[t][i].stage = stage /\ trace[t][i].err = NoError
LastStep(t) == trace[t][Len(trace[t])]

\* C4: whenever the closure passed to with_runtime_mut(config, func) runs, the
\* runtime it works on is the one create_runtime builds from that same config,
\* whatever other threads do with ensure_runtime, with_runtime_mut and
\* release_runtime in the meantime.
C4_ClosureGetsOwnRuntime ==
    \A t \in Threads :
        InClosure(t) =>
            /\ GLOBAL_RUNTIME # None
            /\ Some(GuardedRuntime) = create_runtime(config[t], TRUE).runtime

\* C5: once a panic inside a closure has poisoned the mutex, a later
\* with_runtime_mut whose ensure_runtime succeeded invokes its closure; it does
\* not return the Runtime error "runtime is not initialized".
C5_RecoversAfterPoison ==
    \A t \in Threads :
        (poisoned /\ Returned(t) /\ Analysis(t) /\ RanOk(t, "ensure_runtime")) =>
            /\ outcome[t].err # NotInitialized
            /\ RanOk(t, "with_runtime_mut")

\* the registry is empty, or holds only what a panicked closure left behind,
\* which the next caller is to clear
RegistryEmpty == GLOBAL_RUNTIME = None \/ stale

\* C6: with one caller, ensure_runtime(config) goes on to build sessions
\* exactly when the registry is empty or holds another config; when it does not
\* build, the registry is left as it was; after it returned Ok the registry
\* holds the argument; and release_runtime leaves the registry empty, so that
\* the next ensure_runtime builds.
C6_RebuildsExactlyOnChange ==
    /\ [][\A t \in Threads :
            (callPc[t] = "ensure_check" /\ callPc'[t] # "ensure_check") =>
                /\ (callPc'[t] = "create") <=>
                       (\/ RegistryEmpty
                        \/ Unwrap(GLOBAL_RUNTIME).config # config[t])
                /\ (callPc'[t] # "create") => (GLOBAL_RUNTIME' = GLOBAL_RUNTIME)
         ]_vars
    /\ [](\A t \in Threads :
            (\/ callPc[t] = "with_lock"
             \/ (Returned(t) /\ apiCall[t] = "init_ml_runtime"
                            /\ outcome[t].tag = "Ok")) =>
                /\ GLOBAL_RUNTIME # None
                /\ Unwrap(GLOBAL_RUNTIME).config = config[t])
    /\ [](\A t \in Threads :
            (Returned(t) /\ apiCall[t] = "release_ml_runtime") =>
                GLOBAL_RUNTIME = None)

\* The same statement for the runs in which no closure has panicked.
RebuildsExactlyOnChangeUnpoisoned ==
    [][\A t \in Threads :
          (~poisoned /\ callPc[t] = "ensure_check"
                     /\ callPc'[t] # "ensure_check") =>
              /\ (callPc'[t] = "create") <=>
                     (\/ RegistryEmpty
                      \/ Unwrap(GLOBAL_RUNTIME).config # config[t])
              /\ (callPc'[t] # "create") => (GLOBAL_RUNTIME' = GLOBAL_RUNTIME)
      ]_vars

\* C7: at most one thread at a time is inside the closure run by
\* with_runtime_mut (detect, align, embed, CLIP, building the result), and it
\* holds the lock; a thread that has reached the lock of with_runtime_mut gets
\* past it only when no thread is inside.
C7_OneThreadInClosure ==
    /\ [](/\ Cardinality({t \in Threads : InClosure(t)}) <= 1
          /\ \A t \in Threads : InClosure(t) => lockOwner = t)
    /\ [][\A t \in Threads :
            (callPc[t] = "with_lock" /\ callPc'[t] # "with_lock") =>
                ~ \E u \in Threads : InClosure(u)
         ]_vars

C7_Witness ==
    \E t, u \in Threads :
        /\ t # u
        /\ callPc[t] \in {"align", "embed"}
        /\ callPc[u] = "with_lock"

\* ---------------------------------- properties of the analysis orchestrator
WhitespaceOnly(path) == \A i \in DOMAIN path : path[i] = Space

ExpectedMissing(r) ==
    (IF r.run_faces /\ WhitespaceOnly(r.model_paths.face_detection)
     THEN {"faceDetectionModelPath"} ELSE {})
    \cup (IF r.run_faces /\ WhitespaceOnly(r.model_paths.face_embedding)
          THEN {"faceEmbeddingModelPath"} ELSE {})
    \cup (IF r.run_clip /\ WhitespaceOnly(r.model_paths.clip_image)
          THEN {"clipImageModelPath"} ELSE {})

IsValidationError(e) ==
    /\ e.kind = "InvalidRequest"
    /\ e.msg # <<>>
    /\ Head(e.msg) = "missing required model paths"

ListsExactly(e, names) ==
    /\ Range(Tail(e.msg)) = names
    /\ Len(Tail(e.msg)) = Cardinality(names)

RejectedUntouched(t) ==
    /\ trace[t] = <<Step("validate", outcome[t].err)>>
    /\ ~Ran(t, "decode")

ValidationLeavesRegistry ==
    [][\A t \in Threads :
          (callPc[t] = "idle" /\ callPc'[t] = "returned"
             /\ apiCall'[t] = "analyze_image"
             /\ ExpectedMissing(req'[t]) # {}) =>
              UNCHANGED <<GLOBAL_RUNTIME, poisoned, lockOwner, built>>
      ]_vars

\* C8, as stated: analyze_image fails with InvalidRequest exactly when a
\* requested stage has a blank model path; the message then lists exactly the
\* missing names, the image was not decoded and the registry is unchanged.
C8_InvalidRequestExactlyWhenMissing ==
    /\ [](\A t \in Threads :
            (Returned(t) /\ Analysis(t)) =>
                /\ (outcome[t].tag = "Err"
                        /\ outcome[t].err.kind = "InvalidRequest")
                       <=> (ExpectedMissing(req[t]) # {})
                /\ (ExpectedMissing(req[t]) # {}) =>
                       /\ ListsExactly(outcome[t].err, ExpectedMissing(req[t]))
                       /\ RejectedUntouched(t))
    /\ ValidationLeavesRegistry

\* C8, amended: analyze_image fails with the InvalidRequest error "missing
\* required model paths: .." exactly when a requested stage has a blank model
\* path; the message then lists exactly the missing names, the image was not
\* decoded and the registry is unchanged. (InvalidRequest has other causes.)
C8_ValidationErrorExactlyWhenMissing ==
    /\ [](\A t \in Threads :
            (Returned(t) /\ Analysis(t)) =>
                /\ (outcome[t].tag = "Err" /\ IsValidationError(outcome[t].err))
                       <=> (ExpectedMissing(req[t]) # {})
                /\ (ExpectedMissing(req[t]) # {}) =>
                       /\ ListsExactly(outcome[t].err, ExpectedMissing(req[t]))
                       /\ RejectedUntouched(t))
    /\ ValidationLeavesRegistry

C8_Witness ==
    \E t \in Threads :
        /\ Returned(t) /\ Analysis(t)
        /\ IsValidationError(outcome[t].err)
        /\ ExpectedMissing(req[t]) = {"faceDetectionModelPath"}
        /\ req[t].model_paths.face_detection = <<Space>>
        /\ GLOBAL_RUNTIME # None

\* an InvalidRequest that validation did not raise
C8_OtherInvalidRequest ==
    \E t \in Threads :
        /\ Returned(t) /\ Analysis(t)
        /\ outcome[t].err = NoProvider
        /\ ExpectedMissing(req[t]) = {}

StageOrder ==
    <<"validate", "decode", "ensure_runtime", "with_runtime_mut", "detect",
      "align", "embed", "clip">>

StageIndex(stage) == CHOOSE i \in DOMAIN StageOrder : StageOrder[i] = stage

ExpectedStages(r, faces) ==
    <<"validate", "decode", "ensure_runtime", "with_runtime_mut">>
    \o (IF r.run_faces THEN <<"detect">> ELSE <<>>)
    \o (IF r.run_faces /\ faces > 0 THEN <<"align", "embed">> ELSE <<>>)
    \o (IF r.run_clip THEN <<"clip">> ELSE <<>>)

\* C9: within one analyze_image call the steps run in the order validate,
\* decode, (runtime), detect, align, embed, CLIP, none twice, each only after
\* the one before returned Ok; the first one that fails ends the call with
\* exactly its error; and a call that returns Ok has run exactly the steps its
\* request asks for.
C9_StagesInOrder ==
    \A t \in Threads :
        Analysis(t) =>
            /\ \A i, j \in DOMAIN trace[t] :
                  i < j => StageIndex(trace[t][i].stage)
                               < StageIndex(trace[t][j].stage)
            /\ \A i \in DOMAIN trace[t] :
                  i < Len(trace[t]) => trace[t][i].err = NoError
            /\ (trace[t] # <<>> /\ LastStep(t).err # NoError) =>
                  /\ Returned(t)
                  /\ outcome[t].tag \in {"Err", "panic"}
                  /\ outcome[t].err = LastStep(t).err
            /\ (Returned(t) /\ outcome[t].tag # "Ok") =>
                  outcome[t].err = LastStep(t).err
            /\ (Returned(t) /\ outcome[t].tag = "Ok") =>
                  [i \in DOMAIN trace[t] |-> trace[t][i].stage]
                      = ExpectedStages(req[t], detections[t])
            /\ Ran(t, "clip") => (req[t].run_faces => RanOk(t, "detect"))
            /\ Ran(t, "embed") => RanOk(t, "align")
            /\ Ran(t, "align") => RanOk(t, "detect")

C9_Witness ==
    \E t \in Threads :
        /\ Returned(t) /\ Analysis(t)
        /\ req[t].run_faces /\ req[t].run_clip
        /\ LastStep(t) = Step("embed", StageError("Ort", "embed"))
        /\ outcome[t] = Failed(StageError("Ort", "embed"))

\* C10: in a successful result, faces is absent exactly when run_faces was
\* false; it is the empty list when run_faces was true and the detector found
\* nothing, and alignment and embedding were then skipped; clip is present
\* exactly when run_clip was true; and file_id is the request's.
C10_ResultShape ==
    \A t \in Threads :
        (Returned(t) /\ Analysis(t) /\ outcome[t].tag = "Ok") =>
            /\ (outcome[t].faces = None) <=> ~req[t].run_faces
            /\ (req[t].run_faces /\ detections[t] = 0) =>
                  /\ outcome[t].faces = Some(<<>>)
                  /\ ~Ran(t, "align")
                  /\ ~Ran(t, "embed")
            /\ (req[t].run_faces /\ detections[t] > 0) =>
                  Len(Unwrap(outcome[t].faces)) = detections[t]
            /\ (outcome[t].clip # None) <=> req[t].run_clip
            /\ outcome[t].file_id = req[t].file_id

C10_Witness ==
    \E t \in Threads :
        /\ Returned(t) /\ Analysis(t) /\ outcome[t].tag = "Ok"
        /\ req[t].run_faces /\ req[t].run_clip
        /\ detections[t] = 0
        /\ outcome[t].faces = Some(<<>>)
        /\ outcome[t].file_id = MaxFileId

\* ======================================================================
\* Face detection post-processing (ml/face/detect.rs)
\* ======================================================================
\* Pixel values are integers. A normalised coordinate is kept as its
\* numerator over INPUT_WIDTH (= INPUT_HEIGHT), so [0, 1] is 0..INPUT_WIDTH.
\* A score is kept in hundredths.

MaxRows == 3

INPUT_WIDTH == 640
INPUT_HEIGHT == 640
\* MIN_SCORE_THRESHOLD = 0.5, in hundredths
MIN_SCORE_THRESHOLD == 50
\* IOU_THRESHOLD = 0.4 = IouThresholdNum / IouThresholdDen
IouThresholdNum == 4
IouThresholdDen == 10

\* the rows the detector can put out: centre x, width, score; the keypoint
\* lies on the box's right edge; one row has a negative width
Row(cx, w, score) ==
    [cx |-> cx, cy |-> 320, w |-> w, h |-> 320, score |-> score,
     kx |-> cx + w \div 2, ky |-> 320]

RowSet ==
    { Row(cx, w, score) : cx \in {160, 480}, w \in {320, 640},
                          score \in {40, 60, 90} }
    \cup { Row(160, -320, 60) }

\* the sizes preprocess_yolo letterboxes an image to: the longer side fills
\* the input
ScaledSizes ==
    { [width |-> INPUT_WIDTH, height |-> INPUT_HEIGHT],
      [width |-> 320, height |-> INPUT_HEIGHT] }

Clamp(v, lo, hi) == IF v < lo THEN lo ELSE IF v > hi THEN hi ELSE v

FaceDetection(score, box_xyxy, keypoint) ==
    [score |-> score, box_xyxy |-> box_xyxy, keypoint |-> keypoint]

\* the detection of one row before the letterbox correction
RowDetection(row) ==
    FaceDetection(row.score,
                  <<row.cx - row.w \div 2, row.cy - row.h \div 2,
                    row.cx + row.w \div 2, row.cy + row.h \div 2>>,
                  <<row.kx, row.ky>>)

correct_for_maintained_aspect_ratio(d, size) ==
    IF size.width = INPUT_WIDTH /\ size.height = INPUT_HEIGHT THEN d
    ELSE
    LET sx(v) == Clamp((v * INPUT_WIDTH) \div size.width, 0, INPUT_WIDTH)
        sy(v) == Clamp((v * INPUT_HEIGHT) \div size.height, 0, INPUT_HEIGHT)
    IN  FaceDetection(d.score,
                      <<sx(d.box_xyxy[1]), sy(d.box_xyxy[2]),
                        sx(d.box_xyxy[3]), sy(d.box_xyxy[4])>>,
                      <<sx(d.keypoint[1]), sy(d.keypoint[2])>>)

\* the loop over the rows of run_face_detection
RECURSIVE DetectionsOfRows(_, _)
DetectionsOfRows(rs, size) ==
    IF rs = <<>> THEN <<>>
    ELSE IF Head(rs).score < MIN_SCORE_THRESHOLD
    THEN DetectionsOfRows(Tail(rs), size)
    ELSE <<correct_for_maintained_aspect_ratio(RowDetection(Head(rs)), size)>>
         \o DetectionsOfRows(Tail(rs), size)

\* calculate_iou, as the pair <<intersection_area, union_area>>; <<0, 1>> is
\* the 0.0 it returns early
calculate_iou(a, b) ==
    LET area_a == Max(a.box_xyxy[3] - a.box_xyxy[1], 0)
                    * Max(a.box_xyxy[4] - a.box_xyxy[2], 0)
        area_b == Max(b.box_xyxy[3] - b.box_xyxy[1], 0)
                    * Max(b.box_xyxy[4] - b.box_xyxy[2], 0)
        intersection_width ==
            Min(a.box_xyxy[3], b.box_xyxy[3]) - Max(a.box_xyxy[1], b.box_xyxy[1])
        intersection_height ==
            Min(a.box_xyxy[4], b.box_xyxy[4]) - Max(a.box_xyxy[2], b.box_xyxy[2])
        intersection_area == intersection_width * intersection_height
        union_area == area_a + area_b - intersection_area
    IN  IF intersection_width < 0 \/ intersection_height < 0 THEN <<0, 1>>
        ELSE IF union_area <= 0 THEN <<0, 1>>
        ELSE <<intersection_area, union_area>>

\* iou >= iou_threshold
Suppresses(a, b) ==
    calculate_iou(a, b)[1] * IouThresholdDen
        >= IouThresholdNum * calculate_iou(a, b)[2]

\* detections.sort_by(|a, b| b.score.total_cmp(&a.score)): a stable sort
RECURSIVE InsertByScore(_, _)
InsertByScore(d, sorted) ==
    IF sorted = <<>> THEN <<d>>
    ELSE IF Head(sorted).score >= d.score
    THEN <<Head(sorted)>> \o InsertByScore(d, Tail(sorted))
    ELSE <<d>> \o sorted

RECURSIVE SortByScore(_, _)
SortByScore(ds, sorted) ==
    IF ds = <<>> THEN sorted
    ELSE SortByScore(Tail(ds), InsertByScore(Head(ds), sorted))

RemoveAt(s, n) == SubSeq(s, 1, n - 1) \o SubSeq(s, n + 1, Len(s))

exceptDet == <<dbVars, rtVars, searchVars, thumbnailVars, faceIdVars, slotsVars, sessionVars, longSideVars, preprocessVars, cropVars, filterVars, saveVars, onceVars>>

\* run_face_detection from the model output to the call of the suppression
RunFaceDetection ==
    /\ detPc = "rows"
    /\ candidates' = DetectionsOfRows(rows, scaled)
    /\ nmsList' = candidates'
    /\ detPc' = "sort"
    /\ UNCHANGED <<rows, scaled, nmsI, nmsJ>>
    /\ UNCHANGED exceptDet

\* naive_non_max_suppression: the sort and `let mut i = 0`
NmsSort ==
    /\ detPc = "sort"
    /\ nmsList' = SortByScore(nmsList, <<>>)
    /\ nmsI' = 0
    /\ detPc' = "outer"
    /\ UNCHANGED <<rows, scaled, candidates, nmsJ>>
    /\ UNCHANGED exceptDet

\* its outer loop: `while i + 1 < detections.len()`, `let mut j = i + 1`
NmsOuter ==
    /\ detPc = "outer"
    /\ IF nmsI + 1 < Len(nmsList)
       THEN /\ nmsJ' = nmsI + 1
            /\ detPc' = "inner"
       ELSE /\ detPc' = "returned"
            /\ UNCHANGED nmsJ
    /\ UNCHANGED <<rows, scaled, candidates, nmsList, nmsI>>
    /\ UNCHANGED exceptDet

\* a round of its inner loop keeping every compared detection
NmsInnerKeepsAll ==
    /\ detPc = "inner"
    /\ IF nmsJ < Len(nmsList)
       THEN /\ nmsJ' = nmsJ + 1
            /\ UNCHANGED <<nmsList, nmsI, detPc>>
       ELSE /\ nmsI' = nmsI + 1
            /\ detPc' = "outer"
            /\ UNCHANGED <<nmsList, nmsJ>>
    /\ UNCHANGED <<rows, scaled, candidates>>
    /\ UNCHANGED exceptDet

\* a round of its inner loop `while j < detections.len()`, or `i += 1`
NmsInner ==
    /\ detPc = "inner"
    /\ IF nmsJ < Len(nmsList)
       THEN /\ IF Suppresses(nmsList[nmsI + 1], nmsList[nmsJ + 1])
               THEN /\ nmsList' = RemoveAt(nmsList, nmsJ + 1)
                    /\ UNCHANGED nmsJ
               ELSE /\ nmsJ' = nmsJ + 1
                    /\ UNCHANGED nmsList
            /\ UNCHANGED <<nmsI, detPc>>
       ELSE /\ nmsI' = nmsI + 1
            /\ detPc' = "outer"
            /\ UNCHANGED <<nmsList, nmsJ>>
    /\ UNCHANGED <<rows, scaled, candidates>>
    /\ UNCHANGED exceptDet

InitDetect ==
    /\ InitDB /\ InitRuntime /\ target = "other"
    /\ OnceIdle
    /\ SaveIdle
    /\ FilterIdle
    /\ CropIdle
    /\ PreprocessIdle
    /\ LongSideIdle
    /\ SessionIdle
    /\ SlotsIdle
    /\ FaceIdIdle
    /\ ThumbnailIdle
    /\ SearchIdle
    /\ detPc = "rows"
    /\ rows \in SeqsUpTo(RowSet, MaxRows)
    /\ scaled \in ScaledSizes
    /\ candidates = <<>>
    /\ nmsList = <<>>
    /\ nmsI = 0
    /\ nmsJ = 0

NextDetect ==
    \/ RunFaceDetection
    \/ NmsSort
    \/ NmsOuter
    \/ NmsInner

\* every call runs on: the loops are not held up
SpecDetect == InitDetect /\ [][NextDetect]_vars /\ WF_vars(NextDetect)

\* ---- properties of the face detection post-processing

DetectReturned == detPc = "returned"

InUnit(v) == 0 <= v /\ v <= INPUT_WIDTH

Normalised(d) ==
    /\ \A k \in 1..4 : InUnit(d.box_xyxy[k])
    /\ \A k \in 1..2 : InUnit(d.keypoint[k])
    /\ d.box_xyxy[3] >= d.box_xyxy[1]
    /\ d.box_xyxy[4] >= d.box_xyxy[2]
    /\ d.score >= MIN_SCORE_THRESHOLD

\* C11: every detection run_face_detection returns has its box and keypoint
\* coordinates in [0, 1], x_max >= x_min, y_max >= y_min and a score of at
\* least 0.5, whatever the rows and the image size, square images included.
C11_DetectionsNormalised ==
    DetectReturned => \A k \in 1..Len(nmsList) : Normalised(nmsList[k])

\* what does hold of every returned detection: the score threshold
C11_ScoreAtLeastThreshold ==
    DetectReturned =>
        \A k \in 1..Len(nmsList) : nmsList[k].score >= MIN_SCORE_THRESHOLD

\* the detections of `all` that are not taken up, in order, by `kept`
RECURSIVE Removed(_, _)
Removed(all, kept) ==
    IF all = <<>> THEN <<>>
    ELSE IF kept # <<>> /\ Head(all) = Head(kept)
    THEN Removed(Tail(all), Tail(kept))
    ELSE <<Head(all)>> \o Removed(Tail(all), kept)

IsSubList(kept, all) == Len(Removed(all, kept)) + Len(kept) = Len(all)

SortedInput == SortByScore(candidates, <<>>)

SuppressionResult ==
    LET removed == Removed(SortedInput, nmsList)
    IN  /\ IsSubList(nmsList, SortedInput)
        /\ \A k \in 1..(Len(nmsList) - 1) :
               nmsList[k].score >= nmsList[k + 1].score
        /\ \A k, l \in 1..Len(nmsList) :
               k < l => ~Suppresses(nmsList[k], nmsList[l])
        /\ \A r \in 1..Len(removed) :
               \E k \in 1..Len(nmsList) :
                   /\ Suppresses(nmsList[k], removed[r])
                   /\ nmsList[k].score >= removed[r].score
        /\ candidates # <<>> =>
               /\ nmsList # <<>>
               /\ Head(nmsList) = Head(SortedInput)

\* C12: naive_non_max_suppression terminates and returns a sub-list of its
\* input, sorted by score descending, in which no two detections have an IoU
\* of 0.4 or more; every removed detection has an IoU of 0.4 or more with a
\* kept detection of a score at least its own; the highest-scored detection
\* is always kept.
C12_SuppressionTerminatesGreedy ==
    /\ [](DetectReturned => SuppressionResult)
    /\ <>DetectReturned

\* two detections were kept and one was suppressed
C12_Witness ==
    /\ DetectReturned
    /\ Len(nmsList) = 2
    /\ Len(candidates) = 3

\* ======================================================================
\* The search functions of VectorDB (api/usearch_api.rs)
\* ======================================================================
\* The index holds the keys 1..sSize, the key k at the point k of a line.
\* A distance is kept in units of 1/One. The query "low" lies at the point 0
\* and the query "high" at the point Top, so the one sees the keys in
\* ascending and the other in descending order.

MaxIndexSize == 10001
MaxSmallIndex == 3
MaxAllowed == 2
MaxQueries == 2
MaxCount == 4

FAST_SEARCH_STEP_COUNTS == <<200, 500, 2000, 5000, 10000>>

\* 1.0_f32 in distance units
One == 10000
\* the point of the query "high"
Top == 20000

\* ---- f32 values
F32(v) == [kind |-> "finite", v |-> v]
NaN == [kind |-> "nan", v |-> 0]
Infinity == [kind |-> "infinite", v |-> 1]
NegInfinity == [kind |-> "infinite", v |-> -1]

is_finite(x) == x.kind = "finite"

\* x < 0.0
IsNegative(x) == (is_finite(x) /\ x.v < 0) \/ x = NegInfinity

\* 1.0_f32 - x
OneMinus(x) ==
    IF is_finite(x) THEN F32(One - x.v)
    ELSE IF x = NaN THEN NaN
    ELSE IF x = Infinity THEN NegInfinity
    ELSE Infinity

\* ---- the index (usearch): the searches return the nearest keys, nearest
\* first, with their distances
SearchQueries == {"low", "high"}

Distance(q, key) == IF q = "low" THEN key ELSE Top - key

\* the key at place i of the keys 1..n ordered by their distance to q
RankedKey(q, n, i) == IF q = "low" THEN i ELSE n + 1 - i

Matches(keys, distances) == [keys |-> keys, distances |-> distances]

index_search(q, n, count) ==
    LET k == Min(count, n)
    IN  Matches([i \in 1..k |-> RankedKey(q, n, i)],
                [i \in 1..k |-> Distance(q, RankedKey(q, n, i))])

index_filtered_search(q, n, count, allowed) ==
    LET Passes(key) == key \in allowed
        passing == SelectSeq([i \in 1..n |-> RankedKey(q, n, i)], Passes)
        k == Min(count, Len(passing))
    IN  Matches(SubSeq(passing, 1, k),
                [i \in 1..k |-> Distance(q, passing[i])])

\* ---- Result<SearchMatch, String> and Result<BulkSearchMatch, String>
OkMatch(keys, distances) ==
    [ok |-> TRUE, keys |-> keys, distances |-> distances]
ErrMatch == [ok |-> FALSE, keys |-> <<>>, distances |-> <<>>]
EmptyMatch == OkMatch(<<>>, <<>>)

truncate_at_aligned_length(keys, distances, max_distance) ==
    LET aligned_len == Min(Len(keys), Len(distances))
    IN  OkMatch(SubSeq(keys, 1, aligned_len), SubSeq(distances, 1, aligned_len))

\* partition_point on distances in ascending order is the number of
\* distances that are at most max_distance
truncate_sorted_matches_within_distance(keys, distances, max_distance) ==
    LET aligned_len == Min(Len(keys), Len(distances))
        keep_len ==
            Cardinality({i \in 1..aligned_len : distances[i] <= max_distance.v})
    IN  OkMatch(SubSeq(keys, 1, keep_len), SubSeq(distances, 1, keep_len))

\* search_vectors: `exact` chooses between two searches of the library
search_vectors(q, n, count, exact) ==
    LET matches == index_search(q, n, count)
    IN  OkMatch(matches.keys, matches.distances)

\* approx_filtered_search_vectors_within_distance with no failing search
approx_filtered_search_vectors_within_distance(q, n, allowed_keys, count, max_distance) ==
    IF n = 0 \/ count = 0 \/ allowed_keys = <<>> THEN EmptyMatch
    ELSE IF ~is_finite(max_distance) \/ IsNegative(max_distance) THEN EmptyMatch
    ELSE
    LET allowed == Range(allowed_keys)
        search_count == Min(Min(count, Cardinality(allowed)), n)
        matches == index_filtered_search(q, n, search_count, allowed)
    IN  IF search_count = 0 THEN EmptyMatch
        ELSE truncate_sorted_matches_within_distance(
                 matches.keys, matches.distances, max_distance)

never_expand(count, index_size, matches, max_distance) == FALSE

should_expand(count, index_size, matches, max_distance) ==
    /\ count < index_size
    /\ matches.distances # <<>>
    /\ matches.distances[Len(matches.distances)] <= max_distance.v

empty_unaligned_results(query_count) ==
    [ok |-> TRUE, keys |-> <<>>, distances |-> <<>>]

empty_aligned_results(query_count) ==
    [ok |-> TRUE,
     keys |-> [i \in 1..query_count |-> <<>>],
     distances |-> [i \in 1..query_count |-> <<>>]]

ErrBulk == [ok |-> FALSE, keys |-> <<>>, distances |-> <<>>]

exceptSearch == <<dbVars, rtVars, detVars, thumbnailVars, faceIdVars, slotsVars, sessionVars, longSideVars, preprocessVars, cropVars, filterVars, saveVars, onceVars>>

searchInputs == <<sOp, sSize, sQueries, sAllowed, sCount, sExact, sLimit>>

\* approx_search_vectors_within_similarity up to the call of
\* fast_search_vectors_within_distance, and that function's first lines
ApproxSearchVectorsWithinSimilarity ==
    /\ sPc = "call"
    /\ sOp = "approx_search_vectors_within_similarity"
    /\ LET index_size == sSize
           max_distance == OneMinus(sLimit)
       IN  IF index_size = 0 \/ ~is_finite(sLimit)
           THEN /\ sMatch' = Some(EmptyMatch)
                /\ sPc' = "returned"
                /\ UNCHANGED <<sStep, sPrev>>
           ELSE IF ~is_finite(max_distance) \/ IsNegative(max_distance)
           THEN /\ sMatch' = Some(EmptyMatch)
                /\ sPc' = "returned"
                /\ UNCHANGED <<sStep, sPrev>>
           ELSE /\ sPrev' = 0
                /\ sStep' = 1
                /\ sPc' = "fast"
                /\ UNCHANGED sMatch
    /\ UNCHANGED <<searchInputs, sSearches, sBulk>>
    /\ UNCHANGED exceptSearch

\* fast_search_vectors_within_distance: one round of its loop over the step
\* counts, or what follows the loop
FastSearchStep ==
    /\ sPc = "fast"
    /\ LET index_size == sSize
           max_distance == OneMinus(sLimit)
           q == sQueries[1]
       IN  IF sStep <= Len(FAST_SEARCH_STEP_COUNTS)
           THEN LET count == Min(FAST_SEARCH_STEP_COUNTS[sStep], index_size)
                    matches == index_search(q, index_size, count)
                IN  IF count <= sPrev
                    THEN /\ sStep' = sStep + 1
                         /\ UNCHANGED <<sPrev, sSearches, sMatch, sPc>>
                    ELSE /\ sPrev' = count
                         /\ sSearches' = sSearches + 1
                         /\ \/ /\ sMatch' = Some(ErrMatch)
                               /\ sPc' = "returned"
                               /\ UNCHANGED sStep
                            \/ IF should_expand(count, index_size, matches,
                                                max_distance)
                               THEN /\ sStep' = sStep + 1
                                    /\ UNCHANGED <<sMatch, sPc>>
                               ELSE /\ sMatch' = Some(
                                         truncate_sorted_matches_within_distance(
                                             matches.keys, matches.distances,
                                             max_distance))
                                    /\ sPc' = "returned"
                                    /\ UNCHANGED sStep
           ELSE IF sPrev < index_size
           THEN LET matches == index_search(q, index_size, index_size)
                IN  /\ sSearches' = sSearches + 1
                    /\ \/ sMatch' = Some(ErrMatch)
                       \/ sMatch' = Some(
                              truncate_sorted_matches_within_distance(
                                  matches.keys, matches.distances, max_distance))
                    /\ sPc' = "returned"
                    /\ UNCHANGED <<sStep, sPrev>>
           ELSE /\ sMatch' = Some(EmptyMatch)
                /\ sPc' = "returned"
                /\ UNCHANGED <<sStep, sPrev, sSearches>>
    /\ UNCHANGED <<searchInputs, sBulk>>
    /\ UNCHANGED exceptSearch

\* approx_filtered_search_vectors_within_distance
ApproxFilteredSearchVectorsWithinDistance ==
    /\ sPc = "call"
    /\ sOp = "approx_filtered_search_vectors_within_distance"
    /\ LET index_size == sSize
           q == sQueries[1]
           allowed == Range(sAllowed)
           search_count == Min(Min(sCount, Cardinality(allowed)), index_size)
           matches == index_filtered_search(q, index_size, search_count, allowed)
       IN  IF index_size = 0 \/ sCount = 0 \/ sAllowed = <<>>
           THEN sMatch' = Some(EmptyMatch) /\ UNCHANGED sSearches
           ELSE IF ~is_finite(sLimit) \/ IsNegative(sLimit)
           THEN sMatch' = Some(EmptyMatch) /\ UNCHANGED sSearches
           ELSE IF search_count = 0
           THEN sMatch' = Some(EmptyMatch) /\ UNCHANGED sSearches
           ELSE /\ sSearches' = sSearches + 1
                /\ \/ sMatch' = Some(ErrMatch)
                   \/ sMatch' = Some(truncate_sorted_matches_within_distance(
                                         matches.keys, matches.distances, sLimit))
    /\ sPc' = "returned"
    /\ UNCHANGED <<searchInputs, sStep, sPrev, sBulk>>
    /\ UNCHANGED exceptSearch

\* bulk_approx_filtered_search_vectors_within_distance up to its loop
BulkApproxFilteredSearchVectorsWithinDistance ==
    /\ sPc = "call"
    /\ sOp = "bulk_approx_filtered_search_vectors_within_distance"
    /\ LET query_count == Len(sQueries)
           index_size == sSize
           allowed == Range(sAllowed)
           search_count == Min(Min(sCount, Cardinality(allowed)), index_size)
       IN  IF query_count = 0
           THEN /\ sBulk' = Some([ok |-> TRUE, keys |-> <<>>, distances |-> <<>>])
                /\ sPc' = "returned"
                /\ UNCHANGED sStep
           ELSE IF \/ index_size = 0 \/ sCount = 0 \/ sAllowed = <<>>
                   \/ ~is_finite(sLimit) \/ IsNegative(sLimit)
                   \/ search_count = 0
           THEN /\ sBulk' = Some(empty_aligned_results(query_count))
                /\ sPc' = "returned"
                /\ UNCHANGED sStep
           ELSE /\ sBulk' = Some([ok |-> TRUE, keys |-> <<>>, distances |-> <<>>])
                /\ sStep' = 1
                /\ sPc' = "queries"
    /\ UNCHANGED <<searchInputs, sPrev, sSearches, sMatch>>
    /\ UNCHANGED exceptSearch

\* one round of its loop `for query in queries`, or its last line
BulkFilteredQuery ==
    /\ sPc = "queries"
    /\ sOp = "bulk_approx_filtered_search_vectors_within_distance"
    /\ IF sStep <= Len(sQueries)
       THEN LET allowed == Range(sAllowed)
                search_count == Min(Min(sCount, Cardinality(allowed)), sSize)
                matches == index_filtered_search(sQueries[sStep], sSize,
                                                 search_count, allowed)
                kept == truncate_sorted_matches_within_distance(
                            matches.keys, matches.distances, sLimit)
                all == Unwrap(sBulk)
            IN  /\ sSearches' = sSearches + 1
                /\ \/ /\ sBulk' = Some(ErrBulk)
                      /\ sPc' = "returned"
                      /\ UNCHANGED sStep
                   \/ /\ sBulk' = Some([all EXCEPT
                             !.keys = Append(@, kept.keys),
                             !.distances = Append(@, kept.distances)])
                      /\ sStep' = sStep + 1
                      /\ UNCHANGED sPc
       ELSE /\ sPc' = "returned"
            /\ UNCHANGED <<sBulk, sStep, sSearches>>
    /\ UNCHANGED <<searchInputs, sPrev, sMatch>>
    /\ UNCHANGED exceptSearch

\* bulk_search_vectors: one round of its loop, or its last line
BulkSearchVectors ==
    /\ sPc \in {"call", "queries"}
    /\ sOp = "bulk_search_vectors"
    /\ LET all == IF sPc = "call"
                  THEN [ok |-> TRUE, keys |-> <<>>, distances |-> <<>>]
                  ELSE Unwrap(sBulk)
           at == IF sPc = "call" THEN 1 ELSE sStep
       IN  IF at <= Len(sQueries)
           THEN LET found == search_vectors(sQueries[at], sSize, sCount, sExact)
                IN  /\ sSearches' = sSearches + 1
                    /\ \/ /\ sBulk' = Some(ErrBulk)
                          /\ sPc' = "returned"
                          /\ UNCHANGED sStep
                       \/ /\ sBulk' = Some([all EXCEPT
                                 !.keys = Append(@, found.keys),
                                 !.distances = Append(@, found.distances)])
                          /\ sStep' = at + 1
                          /\ sPc' = "queries"
           ELSE /\ sBulk' = Some(all)
                /\ sPc' = "returned"
                /\ UNCHANGED <<sStep, sSearches>>
    /\ UNCHANGED <<searchInputs, sPrev, sMatch>>
    /\ UNCHANGED exceptSearch

\* ---- the calls made
IndexSizes ==
    {0, 1, 199, 200, 201, 500, 501, 2000, 2001, 5000, 5001, 10000, MaxIndexSize}

\* minimum_similarity: the cuts fall on, before and after the step counts
Similarities ==
    {NaN, Infinity, NegInfinity}
        \cup {F32(One - d) : d \in {-1, 0, 1, 199, 200, 201, 500, 2000, 5000,
                                    10000, 10001, Top - 1}}

MaxDistances ==
    {NaN, Infinity, F32(-1), F32(0), F32(2), F32(Top - 2), F32(Top)}

SearchCall(op, n, queries, allowed, count, exact, limit) ==
    /\ sOp = op
    /\ sSize = n
    /\ sQueries = queries
    /\ sAllowed = allowed
    /\ sCount = count
    /\ sExact = exact
    /\ sLimit = limit

InitSearch ==
    /\ InitDB /\ InitRuntime /\ target = "other"
    /\ OnceIdle
    /\ SaveIdle
    /\ FilterIdle
    /\ CropIdle
    /\ PreprocessIdle
    /\ LongSideIdle
    /\ SessionIdle
    /\ SlotsIdle
    /\ FaceIdIdle
    /\ ThumbnailIdle
    /\ DetectIdle
    /\ sPc = "call"
    /\ sStep = 0
    /\ sPrev = 0
    /\ sSearches = 0
    /\ sMatch = {}
    /\ sBulk = {}
    /\ \/ \E n \in IndexSizes, q \in SearchQueries, s \in Similarities :
              SearchCall("approx_search_vectors_within_similarity",
                         n, <<q>>, <<>>, 0, FALSE, s)
       \/ \E n \in 0..MaxSmallIndex, q \in SearchQueries,
             allowed \in SeqsUpTo(1..(MaxSmallIndex + 1), MaxAllowed),
             count \in 0..MaxCount, d \in MaxDistances :
              SearchCall("approx_filtered_search_vectors_within_distance",
                         n, <<q>>, allowed, count, FALSE, d)
       \/ \E n \in 0..MaxSmallIndex,
             queries \in SeqsUpTo(SearchQueries, MaxQueries),
             allowed \in SeqsUpTo(1..(MaxSmallIndex + 1), MaxAllowed),
             count \in 0..MaxCount, d \in MaxDistances :
              SearchCall("bulk_approx_filtered_search_vectors_within_distance",
                         n, queries, allowed, count, FALSE, d)
       \/ \E n \in 0..MaxSmallIndex,
             queries \in SeqsUpTo(SearchQueries, MaxQueries),
             count \in 0..MaxCount, exact \in BOOLEAN :
              SearchCall("bulk_search_vectors",
                         n, queries, <<>>, count, exact, F32(0))

NextSearch ==
    \/ ApproxSearchVectorsWithinSimilarity
    \/ FastSearchStep
    \/ ApproxFilteredSearchVectorsWithinDistance
    \/ BulkApproxFilteredSearchVectorsWithinDistance
    \/ BulkFilteredQuery
    \/ BulkSearchVectors

SpecSearch == InitSearch /\ [][NextSearch]_vars

\* ---- properties of the search functions

SearchReturned(op) == sPc = "returned" /\ sOp = op

SearchCount == Min(Min(sCount, Cardinality(Range(sAllowed))), sSize)

Ascending(distances) ==
    \A i \in 1..(Len(distances) - 1) : distances[i] <= distances[i + 1]

Aligned(q, m) ==
    /\ Len(m.keys) = Len(m.distances)
    /\ \A i \in 1..Len(m.keys) : m.distances[i] = Distance(q, m.keys[i])

\* the indexed keys within max_distance of the query
KeysWithin(q, n, max_distance) ==
    IF ~is_finite(max_distance) \/ IsNegative(max_distance) THEN {}
    ELSE {key \in 1..n : Distance(q, key) <= max_distance.v}

\* C13: with a search that returns the nearest keys in ascending order,
\* approx_search_vectors_within_similarity(q, s) returns exactly the indexed
\* keys whose distance is at most 1 - s, in ascending order with the distances
\* aligned, for every index size; it returns nothing when the index is empty,
\* s is not finite or 1 - s is negative.
C13_ExactlyKeysWithinSimilarity ==
    (SearchReturned("approx_search_vectors_within_similarity")
        /\ Unwrap(sMatch).ok) =>
        LET m == Unwrap(sMatch)
            q == sQueries[1]
        IN  /\ Range(m.keys) =
                   (IF is_finite(sLimit)
                    THEN KeysWithin(q, sSize, OneMinus(sLimit)) ELSE {})
            /\ Cardinality(Range(m.keys)) = Len(m.keys)
            /\ Aligned(q, m)
            /\ Ascending(m.distances)

\* every step count was passed and the whole index of more than 10000 keys
\* was returned
C13_Witness ==
    /\ SearchReturned("approx_search_vectors_within_similarity")
    /\ Unwrap(sMatch).ok
    /\ sSize = MaxIndexSize
    /\ sStep = Len(FAST_SEARCH_STEP_COUNTS) + 1
    /\ Len(Unwrap(sMatch).keys) = sSize

FilteredEarlyExit ==
    \/ sSize = 0
    \/ sCount = 0
    \/ sAllowed = <<>>
    \/ ~is_finite(sLimit)
    \/ IsNegative(sLimit)

\* C14: approx_filtered_search_vectors_within_distance returns only keys of
\* allowed_keys, at most min(count, distinct allowed keys, index size) of
\* them, each with a distance of at most max_distance, and as many distances
\* as keys; it returns nothing, without searching, when the index is empty,
\* count is 0, allowed_keys is empty or max_distance is not finite or negative.
C14_FilteredWithinDistance ==
    SearchReturned("approx_filtered_search_vectors_within_distance") =>
        LET m == Unwrap(sMatch)
        IN  /\ m.ok =>
                /\ Range(m.keys) \subseteq Range(sAllowed)
                /\ Len(m.keys) <= SearchCount
                /\ Len(m.keys) = Len(m.distances)
                /\ \A i \in 1..Len(m.distances) : m.distances[i] <= sLimit.v
            /\ FilteredEarlyExit => (m = EmptyMatch /\ sSearches = 0)

\* the search found two allowed keys and one of them was within the distance
C14_Witness ==
    /\ SearchReturned("approx_filtered_search_vectors_within_distance")
    /\ Unwrap(sMatch).ok
    /\ SearchCount = 2
    /\ sSearches = 1
    /\ Len(Unwrap(sMatch).keys) = 1

\* what the single-query function returns for query i of the bulk call
SingleResult(i) ==
    IF sOp = "bulk_search_vectors"
    THEN search_vectors(sQueries[i], sSize, sCount, sExact)
    ELSE approx_filtered_search_vectors_within_distance(
             sQueries[i], sSize, sAllowed, sCount, sLimit)

BulkReturned ==
    /\ sPc = "returned"
    /\ sOp \in {"bulk_search_vectors",
                "bulk_approx_filtered_search_vectors_within_distance"}

\* C15: every Ok result of bulk_approx_filtered_search_vectors_within_distance
\* and of bulk_search_vectors has one key list and one distance list per
\* query, in the order of the queries, and entry i is what the single-query
\* function returns for query i; on the early-exit paths every entry is empty.
C15_BulkAlignedWithSingle ==
    (BulkReturned /\ Unwrap(sBulk).ok) =>
        LET b == Unwrap(sBulk)
        IN  /\ Len(b.keys) = Len(sQueries)
            /\ Len(b.distances) = Len(sQueries)
            /\ \A i \in 1..Len(sQueries) :
                   /\ b.keys[i] = SingleResult(i).keys
                   /\ b.distances[i] = SingleResult(i).distances
            /\ (sOp # "bulk_search_vectors" /\ FilteredEarlyExit) =>
                   \A i \in 1..Len(sQueries) :
                       b.keys[i] = <<>> /\ b.distances[i] = <<>>

\* two different queries were answered with different keys
C15_Witness ==
    /\ BulkReturned
    /\ sOp = "bulk_approx_filtered_search_vectors_within_distance"
    /\ Unwrap(sBulk).ok
    /\ Len(sQueries) = 2
    /\ Unwrap(sBulk).keys[1] # <<>>
    /\ Unwrap(sBulk).keys[2] # <<>>
    /\ Unwrap(sBulk).keys[1] # Unwrap(sBulk).keys[2]

\* a bulk call of two queries left on an early-exit path
C15_EarlyExitWitness ==
    /\ BulkReturned
    /\ sOp = "bulk_approx_filtered_search_vectors_within_distance"
    /\ Len(sQueries) = 2
    /\ FilteredEarlyExit

\* ======================================================================
\* Face thumbnails (ml/face/thumbnail.rs)
\* ======================================================================
\* The fields of a FaceBox are kept in twentieths and the f64 pixel values of
\* compute_crop_rect in hundredths of a pixel; the box sizes or the image
\* sides are even, which makes every padding a whole number of hundredths.

MaxBoxes == 2

FACE_THUMBNAIL_MIN_DIMENSION == 512
\* REGULAR_PADDING = 0.4 and MINIMUM_PADDING = 0.1, in tenths
REGULAR_PADDING == 4
MINIMUM_PADDING == 1
\* (u32::MAX + 1) / FACE_THUMBNAIL_MIN_DIMENSION
U32RangePerMinDimension == 8388608
\* the short sides with which a long side below 2^31 can scale past u32::MAX
OverflowingShortSides == 256

FaceBox(x, y, width, height) ==
    [x |-> x, y |-> y, width |-> width, height |-> height]

FaceBoxes ==
    { FaceBox(x, y, w, h) :
        x \in {0, 4, 20}, y \in {0, 20}, w \in {-4, 0, 8, 20}, h \in {8, 20} }

\* decoded.dimensions; the last image is one pixel wide and so high that its
\* whole height scales past u32::MAX
ImageSizes ==
    { [width |-> 0, height |-> 100],
      [width |-> 100, height |-> 100],
      [width |-> 200, height |-> 100],
      [width |-> 100, height |-> 200],
      [width |-> 1, height |-> 8400000] }

CropErr == [ok |-> FALSE, x |-> 0, y |-> 0, width |-> 0, height |-> 0,
            output_width |-> 0, output_height |-> 0]

float_to_nearest_output_dimension(value) == (value + 50) \div 100

\* float_to_output_dimension of a finite value that is not negative, in
\* hundredths: value.trunc()
float_to_output_dimension(value) == value \div 100

\* value * tenths / 10, a whole number for the values it is applied to
TimesTenths(value, tenths) ==
    (value \div 10) * tenths + ((value % 10) * tenths) \div 10

compute_crop_rect(face_box, image_width, image_height) ==
    LET image_w == image_width * 100
        image_h == image_height * 100
        x_min_abs == face_box.x * image_width * 5
        y_min_abs == face_box.y * image_height * 5
        width_abs == face_box.width * image_width * 5
        height_abs == face_box.height * image_height * 5
        x_crop == x_min_abs - TimesTenths(width_abs, REGULAR_PADDING)
        \* x_overshoot * width_abs
        x_over == -Min(x_crop, 0)
        width_crop ==
            TimesTenths(width_abs, 10 + 2 * REGULAR_PADDING)
                - 2 * Min(x_over,
                          TimesTenths(width_abs, REGULAR_PADDING - MINIMUM_PADDING))
        y_crop == y_min_abs - TimesTenths(height_abs, REGULAR_PADDING)
        y_over == -Min(y_crop, 0)
        height_crop ==
            TimesTenths(height_abs, 10 + 2 * REGULAR_PADDING)
                - 2 * Min(y_over,
                          TimesTenths(height_abs, REGULAR_PADDING - MINIMUM_PADDING))
        x_crop_safe == Clamp(x_crop, 0, image_w)
        y_crop_safe == Clamp(y_crop, 0, image_h)
        width_crop_safe == Clamp(width_crop, 0, Max(image_w - x_crop_safe, 0))
        height_crop_safe == Clamp(height_crop, 0, Max(image_h - y_crop_safe, 0))
        output_width == float_to_output_dimension(width_crop_safe)
        output_height == float_to_output_dimension(height_crop_safe)
    IN  IF image_width <= 0 \/ image_height <= 0 THEN CropErr
        ELSE IF width_abs <= 0 \/ height_abs <= 0 THEN CropErr
        ELSE IF output_width = 0 \/ output_height = 0 THEN CropErr
        ELSE [ok |-> TRUE, x |-> x_crop_safe, y |-> y_crop_safe,
              width |-> width_crop_safe, height |-> height_crop_safe,
              output_width |-> output_width, output_height |-> output_height]

\* scaled_long_side: None is its Err. With sides below 2^31,
\* (long * 512 + short / 2) / short exceeds u32::MAX exactly when
\* long >= 2^23 * short
scaled_long_side(long_side, short_side) ==
    IF short_side = 0 THEN None
    ELSE IF /\ short_side < OverflowingShortSides
            /\ long_side >= U32RangePerMinDimension * short_side
    THEN None
    ELSE
    LET numerator == long_side * FACE_THUMBNAIL_MIN_DIMENSION
        denominator == short_side
        rounded == (numerator + (denominator \div 2)) \div denominator
    IN  IF rounded = 0 THEN None ELSE Some(rounded)

TargetSize(width, height) == [width |-> width, height |-> height]

dimensions_with_width_as_min_side(width, height) ==
    IF width = 0 \/ height = 0 THEN None
    ELSE IF scaled_long_side(height, width) = None THEN None
    ELSE Some(TargetSize(FACE_THUMBNAIL_MIN_DIMENSION,
                         Unwrap(scaled_long_side(height, width))))

\* dimensions_with_min_side: None is its Err
dimensions_with_min_side(width, height) ==
    IF width = 0 \/ height = 0 THEN None
    ELSE IF width <= height
    THEN IF scaled_long_side(height, width) = None THEN None
         ELSE Some(TargetSize(FACE_THUMBNAIL_MIN_DIMENSION,
                              Unwrap(scaled_long_side(height, width))))
    ELSE IF scaled_long_side(width, height) = None THEN None
         ELSE Some(TargetSize(Unwrap(scaled_long_side(width, height)),
                              FACE_THUMBNAIL_MIN_DIMENSION))

\* the JPEG encode_rgb returns for the crop of a face, resized to a size
Thumbnail(crop, size) ==
    [x |-> crop.x, y |-> crop.y, crop_width |-> crop.width,
     crop_height |-> crop.height, width |-> size.width, height |-> size.height]

ThumbnailsOk(thumbnails) == [ok |-> TRUE, kind |-> "", thumbnails |-> thumbnails]
ThumbnailsErr(kind) == [ok |-> FALSE, kind |-> kind, thumbnails |-> <<>>]

exceptThumbnail == <<dbVars, rtVars, detVars, searchVars, faceIdVars, slotsVars, sessionVars, longSideVars, preprocessVars, cropVars, filterVars, saveVars, onceVars>>

\* generate_face_thumbnails up to its loop
GenerateFaceThumbnails ==
    /\ tPc = "call"
    /\ IF tBoxes = <<>>
       THEN /\ tReturn' = Some(ThumbnailsOk(<<>>))
            /\ tPc' = "returned"
            /\ UNCHANGED <<tIndex, tResults>>
       ELSE IF tImage.width = 0 \/ tImage.height = 0
       THEN /\ tReturn' = Some(ThumbnailsErr("Decode"))
            /\ tPc' = "returned"
            /\ UNCHANGED <<tIndex, tResults>>
       ELSE \/ \* fir_image_ref_from_decoded fails
               /\ tReturn' = Some(ThumbnailsErr("Decode"))
               /\ tPc' = "returned"
               /\ UNCHANGED <<tIndex, tResults>>
            \/ /\ tResults' = <<>>
               /\ tIndex' = 0
               /\ tPc' = "faces"
               /\ UNCHANGED tReturn
    /\ UNCHANGED <<tImage, tBoxes>>
    /\ UNCHANGED exceptThumbnail

\* one round of its loop over the face boxes, or its last line
ThumbnailOfFace ==
    /\ tPc = "faces"
    /\ IF tIndex < Len(tBoxes)
       THEN LET crop == compute_crop_rect(tBoxes[tIndex + 1],
                                          tImage.width, tImage.height)
                target_size == dimensions_with_min_side(crop.output_width,
                                                   crop.output_height)
            IN  IF ~crop.ok
                THEN /\ tReturn' = Some(ThumbnailsErr("InvalidRequest"))
                     /\ tPc' = "returned"
                     /\ UNCHANGED <<tIndex, tResults>>
                ELSE IF target_size = None
                THEN /\ tReturn' = Some(ThumbnailsErr("Postprocess"))
                     /\ tPc' = "returned"
                     /\ UNCHANGED <<tIndex, tResults>>
                ELSE \/ \* resize_crop_with_fir or encode_rgb fails
                        /\ tReturn' = Some(ThumbnailsErr("Postprocess"))
                        /\ tPc' = "returned"
                        /\ UNCHANGED <<tIndex, tResults>>
                     \/ /\ tResults' =
                               Append(tResults, Thumbnail(crop, Unwrap(target_size)))
                        /\ tIndex' = tIndex + 1
                        /\ UNCHANGED <<tReturn, tPc>>
       ELSE /\ tReturn' = Some(ThumbnailsOk(tResults))
            /\ tPc' = "returned"
            /\ UNCHANGED <<tIndex, tResults>>
    /\ UNCHANGED <<tImage, tBoxes>>
    /\ UNCHANGED exceptThumbnail

InitThumbnail ==
    /\ InitDB /\ InitRuntime /\ target = "other"
    /\ OnceIdle
    /\ SaveIdle
    /\ FilterIdle
    /\ CropIdle
    /\ PreprocessIdle
    /\ LongSideIdle
    /\ SessionIdle
    /\ SlotsIdle
    /\ FaceIdIdle
    /\ SearchIdle
    /\ DetectIdle
    /\ tPc = "call"
    /\ tImage \in ImageSizes
    /\ tBoxes \in SeqsUpTo(FaceBoxes, MaxBoxes)
    /\ tIndex = 0
    /\ tResults = <<>>
    /\ tReturn = {}

NextThumbnail ==
    \/ GenerateFaceThumbnails
    \/ ThumbnailOfFace

SpecThumbnail == InitThumbnail /\ [][NextThumbnail]_vars

\* ---- properties of the face thumbnails

ThumbnailsReturned == tPc = "returned"

InvalidBox(face_box) ==
    ~compute_crop_rect(face_box, tImage.width, tImage.height).ok

\* C16: when generate_face_thumbnails returns Ok it returns one thumbnail per
\* face box, in the order of the boxes, each of a target size whose shorter
\* side is 512 and whose longer side is at least 512; if a face box is invalid
\* or resolves to a zero-sized crop the whole call fails and no partial list
\* is returned.
C16_OneThumbnailPerFaceMinSide ==
    ThumbnailsReturned =>
        LET r == Unwrap(tReturn)
        IN  /\ r.ok =>
                /\ Len(r.thumbnails) = Len(tBoxes)
                /\ \A i \in 1..Len(tBoxes) :
                       LET crop == compute_crop_rect(tBoxes[i], tImage.width,
                                                     tImage.height)
                           t == r.thumbnails[i]
                       IN  /\ crop.ok
                           /\ <<t.x, t.y, t.crop_width, t.crop_height>>
                                  = <<crop.x, crop.y, crop.width, crop.height>>
                           /\ Min(t.width, t.height) = FACE_THUMBNAIL_MIN_DIMENSION
                           /\ Max(t.width, t.height) >= FACE_THUMBNAIL_MIN_DIMENSION
            /\ (\E i \in 1..Len(tBoxes) : InvalidBox(tBoxes[i])) =>
                   (~r.ok /\ r.thumbnails = <<>>)

\* two thumbnails were returned, one of an upright and one of a lying crop
C16_Witness ==
    /\ ThumbnailsReturned
    /\ Unwrap(tReturn).ok
    /\ Len(Unwrap(tReturn).thumbnails) = 2
    /\ Unwrap(tReturn).thumbnails[1].height > FACE_THUMBNAIL_MIN_DIMENSION
    /\ Unwrap(tReturn).thumbnails[2].width > FACE_THUMBNAIL_MIN_DIMENSION

\* the call failed at its second face box, after the first thumbnail was made
C16_FailsWholeWitness ==
    /\ ThumbnailsReturned
    /\ ~Unwrap(tReturn).ok
    /\ tResults # <<>>
    /\ InvalidBox(tBoxes[2])

\* ======================================================================
\* Face ids (ml/types.rs)
\* ======================================================================
\* A coordinate is kept in millionths and a String as the sequence of its
\* characters.

\* the upper bound 0.999_999 of the clamp, in millionths
SegmentClampMax == 999999
\* the places {clamped:.5} keeps, and the millionths in one unit of the last
SegmentDecimals == 5
MillionthsPerUnit == 10

DigitChars == <<"0", "1", "2", "3", "4", "5", "6", "7", "8", "9">>

\* the decimal digits of a number that is not negative
RECURSIVE Decimal(_)
Decimal(n) ==
    IF n < 10 THEN <<DigitChars[n + 1]>>
    ELSE Decimal(n \div 10) \o <<DigitChars[(n % 10) + 1]>>

\* format!("{n}") of an i64
FormatInteger(n) == IF n < 0 THEN <<"-">> \o Decimal(-n) ELSE Decimal(n)

RECURSIVE ZeroPadded(_, _)
ZeroPadded(digits, width) ==
    IF Len(digits) >= width THEN digits
    ELSE ZeroPadded(<<"0">> \o digits, width)

\* format!("{clamped:.5}") of a value that is not negative: the value rounded
\* to five decimals (no coordinate used lies halfway between two of them)
FormatFixed5(millionths) ==
    LET rounded == (millionths + MillionthsPerUnit \div 2) \div MillionthsPerUnit
        whole == rounded \div 100000
        fraction == rounded % 100000
    IN  Decimal(whole) \o <<".">>
            \o ZeroPadded(Decimal(fraction), SegmentDecimals)

\* fixed.split_once('.'): the place of the first '.', 0 when there is none
RECURSIVE PointAt(_, _)
PointAt(str, i) ==
    IF i > Len(str) THEN 0
    ELSE IF str[i] = "." THEN i
    ELSE PointAt(str, i + 1)

to_face_segment(v) ==
    LET clamped == Clamp(v, 0, SegmentClampMax)
        fixed == FormatFixed5(clamped)
        point == PointAt(fixed, 1)
    IN  IF point = 0 THEN <<"0", "0", "0", "0", "0">>
        ELSE SubSeq(fixed, point + 1, Len(fixed))

to_face_id(file_id, box_xyxy) ==
    LET x_min == to_face_segment(box_xyxy[1])
        y_min == to_face_segment(box_xyxy[2])
        x_max == to_face_segment(box_xyxy[3])
        y_max == to_face_segment(box_xyxy[4])
    IN  FormatInteger(file_id) \o <<"_">> \o x_min \o <<"_">> \o y_min
            \o <<"_">> \o x_max \o <<"_">> \o y_max

exceptFaceId == <<dbVars, rtVars, detVars, searchVars, thumbnailVars, slotsVars, sessionVars, longSideVars, preprocessVars, cropVars, filterVars, saveVars, onceVars>>

ToFaceId ==
    /\ fPc = "call"
    /\ fId' = to_face_id(fFileId, fBox)
    /\ fPc' = "returned"
    /\ UNCHANGED <<fFileId, fBox>>
    /\ UNCHANGED exceptFaceId

\* file ids, and coordinates below, in and above [0, 1], among them the
\* values next to 0.999995
FaceFileIds == {-7, 0, 42}

FaceCoordinates ==
    {-500000, 0, 4, 100000, 200000, 300000, 400000, 999994, 999996, 999999,
     1000000, 1500000}

InitFaceId ==
    /\ InitDB /\ InitRuntime /\ target = "other"
    /\ OnceIdle
    /\ SaveIdle
    /\ FilterIdle
    /\ CropIdle
    /\ PreprocessIdle
    /\ LongSideIdle
    /\ SessionIdle
    /\ SlotsIdle
    /\ ThumbnailIdle
    /\ SearchIdle
    /\ DetectIdle
    /\ fPc = "call"
    /\ fFileId \in FaceFileIds
    /\ fBox \in [1..4 -> FaceCoordinates]
    /\ fId = <<>>

NextFaceId == ToFaceId

SpecFaceId == InitFaceId /\ [][NextFaceId]_vars

\* ---- properties of the face ids

FaceIdReturned == fPc = "returned"

\* a string without its leading "0."
StripLeadingZeroPoint(str) ==
    IF Len(str) >= 2 /\ str[1] = "0" /\ str[2] = "."
    THEN SubSeq(str, 3, Len(str))
    ELSE str

\* the segment of the claim: clamp, format to five decimals, strip "0."
StrippedSegment(v) ==
    StripLeadingZeroPoint(FormatFixed5(Clamp(v, 0, SegmentClampMax)))

IsDigits(str) == \A i \in 1..Len(str) : \E d \in 1..10 : str[i] = DigitChars[d]

\* C17: to_face_id returns file_id followed by four segments, each preceded
\* by an underscore, in the order x_min, y_min, x_max, y_max; each segment is
\* exactly the five digits left after clamping the coordinate to
\* [0, 0.999999], formatting it to five decimals and stripping the leading
\* "0."; this for every coordinate, those at or above 0.999995 and those
\* outside [0, 1] included.
C17_FiveDigitSegments ==
    FaceIdReturned =>
        /\ \A k \in 1..4 :
               /\ Len(StrippedSegment(fBox[k])) = SegmentDecimals
               /\ IsDigits(StrippedSegment(fBox[k]))
        /\ fId = FormatInteger(fFileId)
                    \o <<"_">> \o StrippedSegment(fBox[1])
                    \o <<"_">> \o StrippedSegment(fBox[2])
                    \o <<"_">> \o StrippedSegment(fBox[3])
                    \o <<"_">> \o StrippedSegment(fBox[4])

\* what holds of every coordinate: the five digits after the point of the
\* formatted value
C17_DigitsAfterThePoint ==
    FaceIdReturned =>
        /\ Len(fId) = Len(FormatInteger(fFileId)) + 4 * (SegmentDecimals + 1)
        /\ \A k \in 1..4 :
               LET fixed == FormatFixed5(Clamp(fBox[k], 0, SegmentClampMax))
               IN  to_face_segment(fBox[k])
                       = SubSeq(fixed, Len(fixed) - SegmentDecimals + 1, Len(fixed))

\* the example of the claim: 42 with [0.1, 0.2, 0.3, 0.4]
C17_Example ==
    (FaceIdReturned /\ fFileId = 42
        /\ fBox = <<100000, 200000, 300000, 400000>>) =>
        fId = <<"4", "2", "_", "1", "0", "0", "0", "0", "_", "2", "0", "0",
                "0", "0", "_", "3", "0", "0", "0", "0", "_", "4", "0", "0",
                "0", "0">>

\* a coordinate at or above 0.999995 gets the segment of the coordinate 0
C17_TopAliasesZero ==
    to_face_segment(999996) = to_face_segment(0)

\* ======================================================================
\* The model slots of a runtime (ml/runtime.rs)
\* ======================================================================
\* Each slot is given a model file of its own, so that a session tells the
\* slot it was built for.

Slots == {"face_detection", "face_embedding", "clip_image"}

SlotModelFile(slot) ==
    IF slot = "face_detection" THEN "d"
    ELSE IF slot = "face_embedding" THEN "e"
    ELSE "c"

\* the paths a slot is given: none, blank, its file, its file after a space
SlotPaths(slot) ==
    {<<>>, <<Space>>, <<SlotModelFile(slot)>>, <<Space, SlotModelFile(slot)>>}

SlotConfigs ==
    { MlRuntimeConfig(ModelPaths(fd, fe, ci), p) :
        fd \in SlotPaths("face_detection"),
        fe \in SlotPaths("face_embedding"),
        ci \in SlotPaths("clip_image"),
        p \in {DefaultPolicy, [DefaultPolicy EXCEPT !.allow_cpu_fallback = FALSE]} }

\* the name of the slot in the accessors' messages
SlotPathName(slot) ==
    IF slot = "face_detection" THEN "faceDetectionModelPath"
    ELSE IF slot = "face_embedding" THEN "faceEmbeddingModelPath"
    ELSE "clipImageModelPath"

\* the MlResult<&mut Session> of an accessor: as_mut().ok_or_else(..)
SessionAccess(err, slot_session) ==
    [err |-> err, session |-> IF err = NoError THEN slot_session ELSE None]

NoAccess == [err |-> NoError, session |-> None]

exceptSlots == <<dbVars, rtVars, detVars, searchVars, thumbnailVars, faceIdVars, sessionVars, longSideVars, preprocessVars, cropVars, filterVars, saveVars, onceVars>>

\* create_runtime
BuildRuntime ==
    /\ slPc = "build"
    /\ \E loads \in BOOLEAN :
           LET built_runtime == create_runtime(slConfig, loads)
           IN  /\ slRuntime' = built_runtime.runtime
               /\ slPc' = IF built_runtime.ok THEN "built" ELSE "refused"
    /\ UNCHANGED <<slConfig, slSlot, slAccess>>
    /\ UNCHANGED exceptSlots

\* MlRuntime::face_detection_session_mut
FaceDetectionSessionMut ==
    /\ slPc = "built"
    /\ slSlot' = "face_detection"
    /\ slAccess' = SessionAccess(face_detection_session_mut(Unwrap(slRuntime)),
                                 Unwrap(slRuntime).face_detection)
    /\ UNCHANGED <<slPc, slConfig, slRuntime>>
    /\ UNCHANGED exceptSlots

\* MlRuntime::face_embedding_session_mut
FaceEmbeddingSessionMut ==
    /\ slPc = "built"
    /\ slSlot' = "face_embedding"
    /\ slAccess' = SessionAccess(face_embedding_session_mut(Unwrap(slRuntime)),
                                 Unwrap(slRuntime).face_embedding)
    /\ UNCHANGED <<slPc, slConfig, slRuntime>>
    /\ UNCHANGED exceptSlots

\* MlRuntime::clip_image_session_mut
ClipImageSessionMut ==
    /\ slPc = "built"
    /\ slSlot' = "clip_image"
    /\ slAccess' = SessionAccess(clip_image_session_mut(Unwrap(slRuntime)),
                                 Unwrap(slRuntime).clip_image)
    /\ UNCHANGED <<slPc, slConfig, slRuntime>>
    /\ UNCHANGED exceptSlots

InitSlots ==
    /\ InitDB /\ InitRuntime /\ target = "other"
    /\ OnceIdle
    /\ SaveIdle
    /\ FilterIdle
    /\ CropIdle
    /\ PreprocessIdle
    /\ LongSideIdle
    /\ SessionIdle
    /\ FaceIdIdle
    /\ ThumbnailIdle
    /\ SearchIdle
    /\ DetectIdle
    /\ slPc = "build"
    /\ slConfig \in SlotConfigs
    /\ slRuntime = None
    /\ slSlot = "none"
    /\ slAccess = NoAccess

NextSlots ==
    \/ BuildRuntime
    \/ FaceDetectionSessionMut
    \/ FaceEmbeddingSessionMut
    \/ ClipImageSessionMut

SpecSlots == InitSlots /\ [][NextSlots]_vars

\* ---- properties of the model slots

SlotPath(slot) == slConfig.model_paths[slot]

SlotSession(slot) == Unwrap(slRuntime)[slot]

\* an access of a slot answers with that slot's session, or, if the slot was
\* not built, with InvalidRequest "missing model path" and no session
AccessAnswersOwnSlot ==
    slSlot \in Slots =>
        IF SlotSession(slSlot) = None
        THEN /\ slAccess.err = MissingModelPath(SlotPathName(slSlot))
             /\ slAccess.err.kind = "InvalidRequest"
             /\ slAccess.session = None
        ELSE /\ slAccess.err = NoError
             /\ slAccess.session = Some(Session(SlotPath(slSlot)))

\* C18 as stated: a built runtime holds a session for a slot exactly when the
\* slot's path was not empty at build time; the access of an unbuilt slot
\* returns InvalidRequest "missing model path", never another slot's session.
C18_SessionExactlyWhenPathNonEmpty ==
    slPc = "built" =>
        /\ \A slot \in Slots :
               (SlotSession(slot) # None) <=> (SlotPath(slot) # <<>>)
        /\ AccessAnswersOwnSlot

\* C18: a built runtime holds a session for a slot exactly when the slot's
\* path was not blank (not empty once trimmed) at build time, and that session
\* is the one built from the slot's path; the access of an unbuilt slot
\* returns InvalidRequest "missing model path", never another slot's session.
C18_SessionExactlyWhenPathNotBlank ==
    slPc = "built" =>
        /\ \A slot \in Slots :
               /\ (SlotSession(slot) # None) <=> (Trim(SlotPath(slot)) # <<>>)
               /\ SlotSession(slot) # None =>
                      SlotSession(slot) = Some(Session(SlotPath(slot)))
        /\ AccessAnswersOwnSlot

\* an unbuilt slot was accessed in a runtime that holds another slot's session
C18_Witness ==
    /\ slPc = "built"
    /\ slSlot = "clip_image"
    /\ SlotSession("clip_image") = None
    /\ SlotSession("face_detection") # None
    /\ slAccess.err = MissingModelPath("clipImageModelPath")

\* ======================================================================
\* Building an ONNX session (ml/onnx.rs)
\* ======================================================================

\* the messages build_session_with_providers can fail with
AttemptErrors == {"e1", "e2"}

AllPolicies ==
    [prefer_coreml : BOOLEAN, prefer_nnapi : BOOLEAN, prefer_xnnpack : BOOLEAN,
     allow_cpu_fallback : BOOLEAN]

\* errors.join(" | ")
RECURSIVE JoinErrors(_)
JoinErrors(errors) ==
    IF errors = <<>> THEN <<>>
    ELSE IF Len(errors) = 1 THEN errors
    ELSE <<Head(errors), " | ">> \o JoinErrors(Tail(errors))

AcrossFallbacksLastErrorOnly(model_path, errors) ==
    MlError("Ort", <<"failed to create ONNX session for model">> \o model_path
                       \o <<"across EP fallbacks">>
                       \o <<errors[Len(errors)]>>)

\* the Ort error of build_session's last lines
AcrossFallbacks(model_path, errors) ==
    MlError("Ort", <<"failed to create ONNX session for model">> \o model_path
                       \o <<"across EP fallbacks">> \o JoinErrors(errors))

SessionResult(ok, err, session) == [ok |-> ok, err |-> err, session |-> session]

\* a construction attempted: its providers and the error it ended with, ""
\* for none
Tried(providers, error) == [providers |-> providers, error |-> error]

exceptSession ==
    <<dbVars, rtVars, detVars, searchVars, thumbnailVars, faceIdVars, slotsVars, longSideVars, preprocessVars, cropVars, filterVars, saveVars, onceVars>>

\* build_session up to its loop
BuildSession ==
    /\ bPc = "call"
    /\ bAttempts' = Attempts(bPolicy)
    /\ bErrors' = <<>>
    /\ bAt' = 1
    /\ bPc' = "attempts"
    /\ UNCHANGED <<bModelPath, bPolicy, bTried, bResult>>
    /\ UNCHANGED exceptSession

\* one round of its loop `for providers in attempts`, or its last lines
SessionAttempt ==
    /\ bPc = "attempts"
    /\ IF bAt <= Len(bAttempts)
       THEN LET providers == bAttempts[bAt]
            IN  IF providers = <<>>
                THEN /\ bAt' = bAt + 1
                     /\ UNCHANGED <<bErrors, bTried, bResult, bPc>>
                ELSE \/ \* build_session_with_providers returns Ok(session)
                        /\ bTried' = Append(bTried, Tried(providers, ""))
                        /\ bResult' = Some(SessionResult(
                               TRUE, NoError, Some(Session(bModelPath))))
                        /\ bPc' = "returned"
                        /\ UNCHANGED <<bAt, bErrors>>
                     \/ \* it returns Err(error)
                        \E error \in AttemptErrors :
                            /\ bTried' = Append(bTried, Tried(providers, error))
                            /\ bErrors' = Append(bErrors, error)
                            /\ bAt' = bAt + 1
                            /\ UNCHANGED <<bResult, bPc>>
       ELSE /\ bResult' = Some(SessionResult(
                FALSE,
                IF bErrors = <<>> THEN NoProvider
                ELSE AcrossFallbacks(bModelPath, bErrors),
                None))
            /\ bPc' = "returned"
            /\ UNCHANGED <<bAt, bErrors, bTried>>
    /\ UNCHANGED <<bModelPath, bPolicy, bAttempts>>
    /\ UNCHANGED exceptSession

InitSession ==
    /\ InitDB /\ InitRuntime
    /\ OnceIdle
    /\ SaveIdle
    /\ FilterIdle
    /\ CropIdle
    /\ PreprocessIdle
    /\ LongSideIdle
    /\ SlotsIdle
    /\ FaceIdIdle
    /\ ThumbnailIdle
    /\ SearchIdle
    /\ DetectIdle
    /\ bPc = "call"
    /\ bModelPath = <<ModelFile>>
    /\ bPolicy \in AllPolicies
    /\ bAttempts = <<>>
    /\ bAt = 0
    /\ bErrors = <<>>
    /\ bTried = <<>>
    /\ bResult = {}

NextSession ==
    \/ BuildSession
    \/ SessionAttempt

SpecSession == InitSession /\ [][NextSession]_vars

\* ---- properties of the session building

SessionReturned == bPc = "returned"

Accelerator ==
    IF target = "android" /\ bPolicy.prefer_nnapi THEN <<"NNAPI">> ELSE <<>>

\* the lists of the claim, in its order
FullList ==
    Accelerator
        \o (IF bPolicy.allow_cpu_fallback /\ bPolicy.prefer_xnnpack
            THEN <<"XNNPACK">> ELSE <<>>)
        \o (IF bPolicy.allow_cpu_fallback THEN <<"CPU">> ELSE <<>>)

ListWithoutXnnpack ==
    Accelerator \o (IF bPolicy.allow_cpu_fallback THEN <<"CPU">> ELSE <<>>)

ClaimedLists ==
    <<FullList>>
        \o (IF bPolicy.allow_cpu_fallback /\ bPolicy.prefer_xnnpack
            THEN <<ListWithoutXnnpack>> ELSE <<>>)
        \o (IF bPolicy.allow_cpu_fallback THEN <<<<"CPU">>>> ELSE <<>>)

NotEmpty(list) == list # <<>>

ListsToTry == SelectSeq(ClaimedLists, NotEmpty)

TriedLists == [i \in 1..Len(bTried) |-> bTried[i].providers]

\* C19: build_session tries the provider lists in a fixed order: the full
\* list (accelerator, XNNPACK if requested, CPU), the same without XNNPACK
\* (only with allow_cpu_fallback and prefer_xnnpack), the CPU-only list (only
\* with allow_cpu_fallback); empty lists are skipped, the first list that
\* builds a session ends the procedure with that session, at most three
\* attempts are made, and without allow_cpu_fallback no attempt contains the
\* CPU or the XNNPACK provider.
C19_AttemptsInOrder ==
    /\ Len(bTried) <= 3
    /\ Len(bTried) <= Len(ListsToTry)
    /\ TriedLists = SubSeq(ListsToTry, 1, Len(bTried))
    /\ \A i \in 1..(Len(bTried) - 1) : bTried[i].error # ""
    /\ ~bPolicy.allow_cpu_fallback =>
           \A i \in 1..Len(bTried) :
               \A k \in 1..Len(bTried[i].providers) :
                   bTried[i].providers[k] \notin {"CPU", "XNNPACK"}
    /\ SessionReturned =>
           LET r == Unwrap(bResult)
           IN  IF r.ok
               THEN /\ bTried # <<>>
                    /\ bTried[Len(bTried)].error = ""
                    /\ r.session = Some(Session(bModelPath))
               ELSE /\ TriedLists = ListsToTry
                    /\ \A i \in 1..Len(bTried) : bTried[i].error # ""

\* the third list built the session after the first two had failed
C19_Witness ==
    /\ SessionReturned
    /\ Unwrap(bResult).ok
    /\ Len(bTried) = 3
    /\ bTried[1].providers # bTried[2].providers
    /\ bTried[2].providers # bTried[3].providers

FailedMessages == [i \in 1..Len(bTried) |-> bTried[i].error]

\* C20: build_session returns InvalidRequest exactly when no provider
\* survives the filtering (every list is empty and no construction was
\* attempted); when constructions were attempted and all failed it returns an
\* Ort error that holds the message of every failed attempt in their order.
C20_ErrorsOfSessionBuilding ==
    SessionReturned =>
        LET r == Unwrap(bResult)
        IN  /\ (r.err.kind = "InvalidRequest") <=> (bTried = <<>>)
            /\ (bTried = <<>>) <=> (ListsToTry = <<>>)
            /\ (bTried # <<>> /\ ~r.ok) =>
                   /\ r.err.kind = "Ort"
                   /\ IsSubList(FailedMessages, r.err.msg)
                   /\ Len(FailedMessages) = Len(ListsToTry)

\* three constructions failed with messages that differ
C20_Witness ==
    /\ SessionReturned
    /\ ~Unwrap(bResult).ok
    /\ Len(bTried) = 3
    /\ bTried[1].error # bTried[2].error

\* no provider survived and InvalidRequest was returned
C20_InvalidRequestWitness ==
    /\ SessionReturned
    /\ bTried = <<>>
    /\ Unwrap(bResult).err = NoProvider

\* ======================================================================
\* The long side of a thumbnail (ml/face/thumbnail.rs)
\* ======================================================================

MaxSmallSide == 8

\* crop sides: the small ones, those of the tests, and 1024 with the long
\* sides that scale to 512.5 and to 513.5
CropSides == (1..MaxSmallSide) \cup {100, 120, 200, 300, 1024, 1025, 1027}

exceptLongSide ==
    <<dbVars, rtVars, detVars, searchVars, thumbnailVars, faceIdVars, slotsVars,
      sessionVars, preprocessVars, cropVars, filterVars, saveVars, onceVars>>

ScaledLongSide ==
    /\ lsPc = "call"
    /\ lsScaled' = scaled_long_side(lsLong, lsShort)
    /\ lsPc' = "returned"
    /\ UNCHANGED <<lsLong, lsShort>>
    /\ UNCHANGED exceptLongSide

InitLongSide ==
    /\ InitDB /\ InitRuntime /\ target = "other"
    /\ OnceIdle
    /\ SaveIdle
    /\ FilterIdle
    /\ CropIdle
    /\ PreprocessIdle
    /\ SessionIdle
    /\ SlotsIdle
    /\ FaceIdIdle
    /\ ThumbnailIdle
    /\ SearchIdle
    /\ DetectIdle
    /\ lsPc = "call"
    /\ lsShort \in CropSides
    /\ lsLong \in {l \in CropSides : l >= lsShort}
    /\ lsScaled = {}

NextLongSide == ScaledLongSide

SpecLongSide == InitLongSide /\ [][NextLongSide]_vars

\* ---- properties of the long side

LongSideReturned == lsPc = "returned"

\* n / d rounded to the nearest integer, a tie to the even neighbour
RoundHalfEven(n, d) ==
    LET q == n \div d
        twice == 2 * (n % d)
    IN  IF twice < d THEN q
        ELSE IF twice > d THEN q + 1
        ELSE IF q % 2 = 0 THEN q ELSE q + 1

\* n / d rounded to the nearest integer, a tie upwards
RoundHalfUp(n, d) ==
    LET q == n \div d
    IN  IF 2 * (n % d) < d THEN q ELSE q + 1

\* C21: the long side of the target size is long * 512 / short rounded to the
\* nearest integer, a tie to the even neighbour, for all crop sizes with
\* 0 < short <= long.
C21_LongSideHalfEven ==
    LongSideReturned =>
        lsScaled = Some(RoundHalfEven(lsLong * FACE_THUMBNAIL_MIN_DIMENSION,
                                      lsShort))

\* what holds of every crop size: a tie is rounded upwards
C21_LongSideHalfUp ==
    LongSideReturned =>
        lsScaled = Some(RoundHalfUp(lsLong * FACE_THUMBNAIL_MIN_DIMENSION,
                                    lsShort))

\* the examples of the claim: 100x200 gives 512x1024, 300x120 gives 1280x512
C21_Examples ==
    /\ dimensions_with_min_side(100, 200) = Some(TargetSize(512, 1024))
    /\ dimensions_with_min_side(300, 120) = Some(TargetSize(1280, 512))

\* ======================================================================
\* The letterbox of the detector's input (ml/preprocess.rs)
\* ======================================================================

MaxTinySide == 3

YOLO_INPUT_WIDTH == 640
YOLO_INPUT_HEIGHT == 640

\* image sides: none, a few pixels, the input size and its multiples, and
\* sides more than 1280 times a side of one pixel
ImageSides == (0..MaxTinySide) \cup {320, 640, 641, 1280, 1281, 2000, 4000, 10000}

\* f32::round of the positive n / d: to the nearest integer, a tie away from 0
RoundF32(n, d) == ((2 * n) + d) \div (2 * d)

\* the scale of preprocess_yolo as the fraction num / den: the smaller one of
\* 640 / src_w and 640 / src_h
YoloScale(src_w, src_h) ==
    IF YOLO_INPUT_WIDTH * src_h <= YOLO_INPUT_HEIGHT * src_w
    THEN [num |-> YOLO_INPUT_WIDTH, den |-> src_w]
    ELSE [num |-> YOLO_INPUT_HEIGHT, den |-> src_h]

PreprocessErr == [ok |-> FALSE, scaled_width |-> 0, scaled_height |-> 0]

\* (src * scale).round().clamp(0.0, 640.0) as usize
scaled_side(src, scale, input) ==
    Clamp(RoundF32(src * scale.num, scale.den), 0, input)

\* preprocess_yolo without the pixel data
preprocess_yolo(width, height) ==
    IF width = 0 \/ height = 0
    THEN PreprocessErr
    ELSE LET scale == YoloScale(width, height)
         IN  [ok |-> TRUE,
              scaled_width |-> scaled_side(width, scale, YOLO_INPUT_WIDTH),
              scaled_height |-> scaled_side(height, scale, YOLO_INPUT_HEIGHT)]

exceptPreprocess ==
    <<dbVars, rtVars, detVars, searchVars, thumbnailVars, faceIdVars, slotsVars,
      sessionVars, longSideVars, cropVars, filterVars, saveVars, onceVars>>

PreprocessYolo ==
    /\ ppPc = "call"
    /\ ppResult' = {preprocess_yolo(ppWidth, ppHeight)}
    /\ ppPc' = "returned"
    /\ UNCHANGED <<ppWidth, ppHeight>>
    /\ UNCHANGED exceptPreprocess

InitPreprocess ==
    /\ InitDB /\ InitRuntime /\ target = "other"
    /\ OnceIdle
    /\ SaveIdle
    /\ FilterIdle
    /\ CropIdle
    /\ LongSideIdle
    /\ SessionIdle
    /\ SlotsIdle
    /\ FaceIdIdle
    /\ ThumbnailIdle
    /\ SearchIdle
    /\ DetectIdle
    /\ ppPc = "call"
    /\ ppWidth \in ImageSides
    /\ ppHeight \in ImageSides
    /\ ppResult = {}

NextPreprocess == PreprocessYolo

SpecPreprocess == InitPreprocess /\ [][NextPreprocess]_vars

\* ---- properties of the letterbox

PreprocessReturned == ppPc = "returned"

PreprocessOk ==
    /\ PreprocessReturned
    /\ ppWidth > 0
    /\ ppHeight > 0

\* C22: for every image with width > 0 and height > 0 both scaled sides are
\* in 1..640, also when round(src * scale) is 0 for the short side, and at
\* least one of them is 640.
C22_ScaledSidesAtLeastOne ==
    PreprocessOk =>
        \A r \in ppResult :
            /\ r.ok
            /\ r.scaled_width \in 1..YOLO_INPUT_WIDTH
            /\ r.scaled_height \in 1..YOLO_INPUT_HEIGHT
            /\ \/ r.scaled_width = YOLO_INPUT_WIDTH
               \/ r.scaled_height = YOLO_INPUT_HEIGHT

\* what holds of every image: the sides are in 0..640, one of them is 640,
\* and a side is 0 exactly when the other side is more than 1280 times it
C22_ScaledSidesFromZero ==
    PreprocessOk =>
        \A r \in ppResult :
            /\ r.ok
            /\ r.scaled_width \in 0..YOLO_INPUT_WIDTH
            /\ r.scaled_height \in 0..YOLO_INPUT_HEIGHT
            /\ \/ r.scaled_width = YOLO_INPUT_WIDTH
               \/ r.scaled_height = YOLO_INPUT_HEIGHT
            /\ r.scaled_width = 0 <=> ppHeight > 2 * YOLO_INPUT_WIDTH * ppWidth
            /\ r.scaled_height = 0 <=> ppWidth > 2 * YOLO_INPUT_HEIGHT * ppHeight

\* an image without pixels is refused
C22_ZeroDimensionsRefused ==
    (PreprocessReturned /\ (ppWidth = 0 \/ ppHeight = 0)) =>
        ppResult = {PreprocessErr}

\* ======================================================================
\* The crop of one face (ml/face/thumbnail.rs)
\* ======================================================================

MaxCropOrigin == 24

\* face boxes in twentieths: origins left of, on and inside the image and on
\* its far edge and beyond, sizes from a twentieth to the whole image and none
CropBoxes ==
    { FaceBox(x, y, w, h) :
        x \in {-2, 0, 4, 5, 12, 20, MaxCropOrigin},
        y \in {-2, 0, 4, 5, 12, 20},
        w \in {0, 1, 4, 10, 20},
        h \in {1, 4, 10, 20} }

\* images with even sides: those of the tests and two of a few pixels
CropImages ==
    { [width |-> 100, height |-> 80],
      [width |-> 100, height |-> 100],
      [width |-> 2, height |-> 2],
      [width |-> 6, height |-> 4] }

CropOk(crop) == [ok |-> TRUE, kind |-> "", crop |-> crop]
CropFails(kind) == [ok |-> FALSE, kind |-> kind, crop |-> CropErr]

exceptCrop ==
    <<dbVars, rtVars, detVars, searchVars, thumbnailVars, faceIdVars, slotsVars,
      sessionVars, longSideVars, preprocessVars, filterVars, saveVars, onceVars>>

\* the first statement of the loop of generate_face_thumbnails: the crop of
\* the face box, its error mapped to InvalidRequest
CropOfFace ==
    /\ crPc = "call"
    /\ LET face_box == Unwrap(crBox)
           image == Unwrap(crImage)
           crop == compute_crop_rect(face_box, image.width, image.height)
       IN  crResult' = IF crop.ok THEN {CropOk(crop)}
                       ELSE {CropFails("InvalidRequest")}
    /\ crPc' = "returned"
    /\ UNCHANGED <<crBox, crImage>>
    /\ UNCHANGED exceptCrop

InitCrop ==
    /\ InitDB /\ InitRuntime /\ target = "other"
    /\ OnceIdle
    /\ SaveIdle
    /\ FilterIdle
    /\ PreprocessIdle
    /\ LongSideIdle
    /\ SessionIdle
    /\ SlotsIdle
    /\ FaceIdIdle
    /\ ThumbnailIdle
    /\ SearchIdle
    /\ DetectIdle
    /\ crPc = "call"
    /\ \E face_box \in CropBoxes : crBox = {face_box}
    /\ \E image \in CropImages : crImage = {image}
    /\ crResult = {}

NextCrop == CropOfFace

SpecCrop == InitCrop /\ [][NextCrop]_vars

\* ---- properties of the crop

CropReturned == crPc = "returned"

\* the sides of the image and the origin and sizes of the face box, in
\* hundredths of a pixel
CropImageW == Unwrap(crImage).width * 100
CropImageH == Unwrap(crImage).height * 100
CropBoxX == Unwrap(crBox).x * Unwrap(crImage).width * 5
CropBoxY == Unwrap(crBox).y * Unwrap(crImage).height * 5
CropBoxW == Unwrap(crBox).width * Unwrap(crImage).width * 5
CropBoxH == Unwrap(crBox).height * Unwrap(crImage).height * 5

\* 0.4, 0.1 and 0.3 of the box size at box sizes of whole twentieths
Padding4(size) == (size * 2) \div 5
PaddedBy4(size) == (size * 9) \div 5
PaddedBy1(size) == (size * 6) \div 5
Padding3(size) == (size * 3) \div 10

\* the near edge of the padded box lies before the image
OvershootsNear(origin, size) == origin - Padding4(size) < 0

\* the padded box lies between the edges of the image
NothingOvershoots(origin, size, image) ==
    /\ ~OvershootsNear(origin, size)
    /\ origin - Padding4(size) + PaddedBy4(size) <= image

\* the crop along one axis, when the padded box lies inside the image
PaddedInside(crop_origin, crop_size, origin, size) ==
    /\ crop_origin = origin - Padding4(size)
    /\ crop_size = PaddedBy4(size)

\* the crop along one axis whose near edge overshoots: it starts on the edge
\* of the image and the padded size is reduced by twice the overshoot, by not
\* more than 0.3 of the box size on either side, which leaves 0.1, and by what
\* the image cuts off
PaddedOvershooting(crop_origin, crop_size, origin, size, image) ==
    LET overshoot == Padding4(size) - origin
        reduced == PaddedBy4(size) - 2 * Min(overshoot, Padding3(size))
    IN  /\ crop_origin = 0
        /\ crop_size = Min(reduced, image)
        /\ crop_size >= Min(PaddedBy1(size), image)

\* the size of the crop along one axis before its truncation
ClampedCropSize(origin, size, image) ==
    LET near == origin - Padding4(size)
        reduced == PaddedBy4(size) - 2 * Min(Max(-near, 0), Padding3(size))
        safe == Clamp(near, 0, image)
    IN  Min(reduced, image - safe)

\* C23: for every face box with positive width and height and every image
\* size the crop lies inside the image, pads each side by 0.4 of the box size
\* when nothing overshoots, keeps at least 0.1 padding on a side that
\* overshoots, has the truncated crop width and height as its output
\* dimensions, and is rejected with InvalidRequest when either output
\* dimension is 0.
C23_CropInsidePaddedTruncated ==
    (CropReturned /\ CropBoxW > 0 /\ CropBoxH > 0) =>
        \A r \in crResult :
            LET c == r.crop
                zero_sized ==
                    \/ ClampedCropSize(CropBoxX, CropBoxW, CropImageW) < 100
                    \/ ClampedCropSize(CropBoxY, CropBoxH, CropImageH) < 100
            IN  /\ r.ok <=> ~zero_sized
                /\ ~r.ok => r.kind = "InvalidRequest"
                /\ r.ok =>
                    /\ 0 <= c.x /\ c.x + c.width <= CropImageW
                    /\ 0 <= c.y /\ c.y + c.height <= CropImageH
                    /\ NothingOvershoots(CropBoxX, CropBoxW, CropImageW) =>
                           PaddedInside(c.x, c.width, CropBoxX, CropBoxW)
                    /\ NothingOvershoots(CropBoxY, CropBoxH, CropImageH) =>
                           PaddedInside(c.y, c.height, CropBoxY, CropBoxH)
                    /\ OvershootsNear(CropBoxX, CropBoxW) =>
                           PaddedOvershooting(c.x, c.width, CropBoxX, CropBoxW,
                                              CropImageW)
                    /\ OvershootsNear(CropBoxY, CropBoxH) =>
                           PaddedOvershooting(c.y, c.height, CropBoxY, CropBoxH,
                                              CropImageH)
                    /\ c.output_width = c.width \div 100
                    /\ c.output_height = c.height \div 100
                    /\ c.output_width >= 1 /\ c.output_height >= 1

\* the examples of the claim: the box (0.25, 0.25, 0.5, 0.5) in an image of
\* 100x80 and the box with x = 0 and width 0.2 in an image 100 wide
C23_Examples ==
    /\ compute_crop_rect(FaceBox(5, 5, 10, 10), 100, 80)
           = [ok |-> TRUE, x |-> 500, y |-> 400, width |-> 9000,
              height |-> 7200, output_width |-> 90, output_height |-> 72]
    /\ LET crop == compute_crop_rect(FaceBox(0, 4, 4, 4), 100, 100)
       IN  /\ crop.ok
           /\ crop.x = 0
           /\ crop.width = 2400
           /\ crop.output_width = 24

\* a crop of a box inside the image was returned whose width has a fraction
C23_Witness ==
    /\ CropReturned
    /\ \E r \in crResult :
           /\ r.ok
           /\ NothingOvershoots(CropBoxX, CropBoxW, CropImageW)
           /\ r.crop.width % 100 >= 50

\* a crop was returned whose near edges overshoot on both axes
C23_OvershootWitness ==
    /\ CropReturned
    /\ \E r \in crResult :
           /\ r.ok
           /\ OvershootsNear(CropBoxX, CropBoxW)
           /\ OvershootsNear(CropBoxY, CropBoxH)
           /\ r.crop.width < CropImageW

\* a box of positive size was rejected for an output dimension of 0
C23_ZeroSizedWitness ==
    /\ CropReturned
    /\ CropBoxW > 0
    /\ CropBoxH > 0
    /\ crResult = {CropFails("InvalidRequest")}

\* ======================================================================
\* The filter of a resize (ml/face/thumbnail.rs)
\* ======================================================================

MaxFilterTarget == 200

\* crop sides in hundredths of a pixel: those of the tests and the sides on
\* and next to 1.0, 1.15 and 1.5 times a target side of 100
FilterCropSides ==
    {8000, 9999, 10000, 10090, 11500, 11501, 12000, 14900, 15000, 15001,
     16000, 18000}

FilterTargetSides == {100, MaxFilterTarget}

\* a scale as the fraction num / den
Scale(num, den) == [num |-> num, den |-> den]

\* f64::max of two scales
MaxScale(a, b) == IF a.num * b.den >= b.num * a.den THEN a ELSE b

\* scale < hundredths / 100 and scale <= hundredths / 100
ScaleBelow(scale, hundredths) == 100 * scale.num < hundredths * scale.den
ScaleAtMost(scale, hundredths) == 100 * scale.num <= hundredths * scale.den

select_resize_filter_by_width(crop, target_width, target_height) ==
    LET scale_x == Scale(crop.width, 100 * target_width)
        max_scale == scale_x
    IN  IF ScaleBelow(max_scale, 100) THEN "CatmullRom"
        ELSE IF ScaleAtMost(max_scale, 115) THEN "Bilinear"
        ELSE IF ScaleAtMost(max_scale, 150) THEN "Mitchell"
        ELSE "Lanczos3"

select_resize_filter(crop, target_width, target_height) ==
    LET scale_x == Scale(crop.width, 100 * target_width)
        scale_y == Scale(crop.height, 100 * target_height)
        max_scale == MaxScale(scale_x, scale_y)
    IN  IF ScaleBelow(max_scale, 100) THEN "CatmullRom"
        ELSE IF ScaleAtMost(max_scale, 115) THEN "Bilinear"
        ELSE IF ScaleAtMost(max_scale, 150) THEN "Mitchell"
        ELSE "Lanczos3"

exceptFilter ==
    <<dbVars, rtVars, detVars, searchVars, thumbnailVars, faceIdVars, slotsVars,
      sessionVars, longSideVars, preprocessVars, cropVars, saveVars, onceVars>>

SelectResizeFilter ==
    /\ rfPc = "call"
    /\ LET crop == Unwrap(rfCrop)
           target_size == Unwrap(rfTarget)
       IN  rfFilter' = {select_resize_filter(crop, target_size.width,
                                             target_size.height)}
    /\ rfPc' = "returned"
    /\ UNCHANGED <<rfCrop, rfTarget>>
    /\ UNCHANGED exceptFilter

InitFilter ==
    /\ InitDB /\ InitRuntime /\ target = "other"
    /\ OnceIdle
    /\ SaveIdle
    /\ CropIdle
    /\ PreprocessIdle
    /\ LongSideIdle
    /\ SessionIdle
    /\ SlotsIdle
    /\ FaceIdIdle
    /\ ThumbnailIdle
    /\ SearchIdle
    /\ DetectIdle
    /\ rfPc = "call"
    /\ \E w \in FilterCropSides, h \in FilterCropSides :
           rfCrop = {[width |-> w, height |-> h]}
    /\ \E w \in FilterTargetSides, h \in FilterTargetSides :
           rfTarget = {TargetSize(w, h)}
    /\ rfFilter = {}

NextFilter == SelectResizeFilter

SpecFilter == InitFilter /\ [][NextFilter]_vars

\* ---- properties of the filter

FilterReturned == rfPc = "returned"

\* the two ratios crop / target, in hundredths of the crop side
RatioX == Scale(Unwrap(rfCrop).width, 100 * Unwrap(rfTarget).width)
RatioY == Scale(Unwrap(rfCrop).height, 100 * Unwrap(rfTarget).height)

\* r < 1.0, r <= 1.15 and r <= 1.5 of r, the larger one of the two ratios
RBelow(hundredths) ==
    ScaleBelow(RatioX, hundredths) /\ ScaleBelow(RatioY, hundredths)
RAtMost(hundredths) ==
    ScaleAtMost(RatioX, hundredths) /\ ScaleAtMost(RatioY, hundredths)

\* C24: the filter is chosen from r = max(crop_width / target_width,
\* crop_height / target_height) alone: CatmullRom when r < 1.0, Bilinear when
\* 1.0 <= r <= 1.15, Mitchell when 1.15 < r <= 1.5, Lanczos3 when r > 1.5; of
\* these four cases exactly one holds for every r.
C24_FilterByLargerRatio ==
    FilterReturned =>
        \E f \in {"CatmullRom", "Bilinear", "Mitchell", "Lanczos3"} :
            /\ rfFilter = {f}
            /\ f = "CatmullRom" <=> RBelow(100)
            /\ f = "Bilinear" <=> (~RBelow(100) /\ RAtMost(115))
            /\ f = "Mitchell" <=> (~RAtMost(115) /\ RAtMost(150))
            /\ f = "Lanczos3" <=> ~RAtMost(150)

\* the examples of the test: 80x80, 100.9x100, 149x120 and 180x160 to 100x100
C24_Examples ==
    /\ select_resize_filter([width |-> 8000, height |-> 8000], 100, 100)
           = "CatmullRom"
    /\ select_resize_filter([width |-> 10090, height |-> 10000], 100, 100)
           = "Bilinear"
    /\ select_resize_filter([width |-> 14900, height |-> 12000], 100, 100)
           = "Mitchell"
    /\ select_resize_filter([width |-> 18000, height |-> 16000], 100, 100)
           = "Lanczos3"

\* Mitchell was chosen for a crop whose height alone exceeds 1.15 targets and
\* is 1.5 targets exactly
C24_Witness ==
    /\ FilterReturned
    /\ rfFilter = {"Mitchell"}
    /\ ScaleBelow(RatioX, 100)
    /\ ScaleAtMost(RatioY, 150)
    /\ ~ScaleBelow(RatioY, 150)

\* each of the other filters was chosen, on the edges of their ranges
C24_EdgesWitness ==
    /\ FilterReturned
    /\ rfFilter = {"Bilinear"}
    /\ ~ScaleBelow(RatioX, 115)
    /\ ~ScaleBelow(RatioY, 100)
    /\ ScaleAtMost(RatioY, 100)

\* ======================================================================
\* The capacity of the vector index (api/usearch_api.rs)
\* ======================================================================
\* The mutators of VectorDB on an index as earlier calls left it: with about
\* as many keys as the first reserve holds, and with the capacity its largest
\* size so far has asked for.

MaxCapacityCalls == 2

\* the sizes the index has, and by how much its largest size was above it
EarlierSizes == {InitialReserve - 1, InitialReserve}
PeaksAbove == {0, CapacityHeadroom + 2, CapacityHeadroom + 3}

\* n keys that are none of the keys the calls name, each with a vector
OlderEntries(n) == { <<MaxKey + i, 1>> : i \in 1..n }

InitCapacity ==
    /\ InitRuntime /\ FnIdle /\ target = "other"
    /\ handle = "open"
    /\ \E n \in EarlierSizes, above \in PeaksAbove :
           /\ index = OlderEntries(n)
           /\ capacity = IndexReserve(InitialReserve, n + above)
    /\ disk = Snapshot(index)
    /\ temps = {}
    /\ saveCounter = 0
    /\ pid = 1
    /\ calls = MaxCalls - MaxCapacityCalls
    /\ pc = "idle"
    /\ result = "Ok"
    /\ tmp = NoTemp
    /\ faults = 0
    /\ crashes = 0
    /\ crashedInSave = FALSE
    /\ closed = Unknown
    /\ mustHave = NoPromises
    /\ pending = NoPromises
    /\ injected = FALSE

NextCapacity ==
    \/ New
    \/ \E k \in Keys, v \in Vectors : AddVector(k, v)
    \/ \E ks \in SeqsUpTo(Keys, MaxBulk), vs \in SeqsUpTo(Vectors, MaxBulk) :
          BulkAddVectors(ks, vs)
    \/ \E k \in Keys : RemoveVector(k)
    \/ ResetIndex
    \/ SaveDir
    \/ SaveWriteBegin
    \/ SaveWriteEnd
    \/ SaveRename
    \/ Close

SpecCapacity == InitCapacity /\ [][NextCapacity]_vars

\* ---- properties of the capacity

\* what ensure_capacity(margin) would do to the index as it is
EnsureCapacityNow(margin) == EnsureCapacity(index, capacity, margin, FALSE)

\* C25: ensure_capacity(margin) reserves size + margin exactly when
\* size + margin + 1000 >= capacity and changes nothing otherwise; after its Ok
\* the capacity is at least size + margin; so along every sequence of new,
\* add_vector, bulk_add_vectors, remove and reset_index no vector is inserted
\* while size = capacity: the index is never larger than its capacity and no
\* call fails but by a failing library or file-system call.
C25_CapacityCoversEveryInsert ==
    handle = "open" =>
        /\ IndexSize(index) <= capacity
        /\ result = "Err" => injected
        /\ \A margin \in 0..MaxBulk :
               LET ec == EnsureCapacityNow(margin)
                   wanted == IndexSize(index) + margin
               IN  /\ ec.ok
                   /\ ec.cap >= wanted
                   /\ wanted + CapacityHeadroom >= capacity =>
                          ec.cap = IndexReserve(capacity, wanted)
                   /\ wanted + CapacityHeadroom < capacity => ec.cap = capacity

\* every step that makes the index larger leaves it within its capacity
C25_InsertedBelowCapacity ==
    [][IndexSize(index') > IndexSize(index) => IndexSize(index') <= capacity']_vars

\* a key was added to an index that was full: the capacity grew by the margin
C25_Witness ==
    /\ Idle
    /\ result = "Ok"
    /\ IndexContains(index, 1)
    /\ IndexSize(index) = InitialReserve + 1
    /\ capacity = InitialReserve + 1

\* a key was added where ensure_capacity reserved nothing
C25_NothingReservedWitness ==
    /\ Idle
    /\ result = "Ok"
    /\ IndexContains(index, 1)
    /\ IndexSize(index) + CapacityHeadroom < capacity

\* a key was added after reset_index had failed to reserve
C25_AfterFailedReserveWitness ==
    /\ Idle
    /\ result = "Ok"
    /\ IndexSize(index) = 1
    /\ capacity = 1

\* ======================================================================
\* Concurrent save_index calls of one process (api/usearch_api.rs)
\* ======================================================================
\* Every handle has its own thread and its own backing path; the paths have
\* one stem, so their temp paths differ by process id and sequence number
\* only. The counter, the temp files and the failures are those of the
\* process: saveCounter, temps, faults.

MaxSavers == 2
MaxSaves == 2

Savers == 1..MaxSavers

\* what index.save of the save-th call of a handle has written so far
Written(t, save, whole) == [owner |-> t, save |-> save, whole |-> whole]

exceptSave ==
    <<handle, index, capacity, disk, pid, calls, pc, result, tmp, crashes,
      crashedInSave, closed, mustHave, pending, injected, rtVars, detVars,
      searchVars, thumbnailVars, faceIdVars, slotsVars, sessionVars,
      longSideVars, preprocessVars, cropVars, filterVars, onceVars>>

\* save_index returns
SaveReturns(t, ok) ==
    /\ svPc' = [svPc EXCEPT ![t] = "idle"]
    /\ svResult' = [svResult EXCEPT ![t] = IF ok THEN "Ok" ELSE "Err"]
    /\ svLast' = [svLast EXCEPT ![t] = svTmp[t]]
    /\ svTmp' = [svTmp EXCEPT ![t] = NoTemp]

\* create_dir_all(parent), then the temp path from the process-wide counter
SaveIndexDir(t) ==
    /\ svPc[t] = "idle"
    /\ svSaves[t] < MaxSaves
    /\ svSaves' = [svSaves EXCEPT ![t] = @ + 1]
    /\ \E f \in FaultChoices({"dir"}) :
         IF f = "dir"
         THEN /\ faults' = faults + 1
              /\ SaveReturns(t, FALSE)
              /\ UNCHANGED <<saveCounter, svNames>>
         ELSE /\ saveCounter' = saveCounter + 1
              /\ svTmp' = [svTmp EXCEPT ![t] = TempPath(pid, saveCounter)]
              /\ svNames' = Append(svNames, TempPath(pid, saveCounter))
              /\ svPc' = [svPc EXCEPT ![t] = "save_write"]
              /\ UNCHANGED <<faults, svResult, svLast>>
    /\ UNCHANGED <<temps, svFile>>
    /\ UNCHANGED exceptSave

\* index.save(temp) has created the file and written part of it
SaveIndexWriteBegin(t) ==
    /\ svPc[t] = "save_write"
    /\ temps' = WithTemp(temps, svTmp[t], Written(t, svSaves[t], FALSE))
    /\ svPc' = [svPc EXCEPT ![t] = "save_writing"]
    /\ UNCHANGED <<saveCounter, faults, svTmp, svLast, svResult, svSaves,
                   svFile, svNames>>
    /\ UNCHANGED exceptSave

\* index.save(temp) returns: the file is complete, or it failed and the
\* temp file is removed
SaveIndexWriteEnd(t) ==
    /\ svPc[t] = "save_writing"
    /\ \E f \in FaultChoices({"save"}) :
         IF f = "save"
         THEN /\ faults' = faults + 1
              /\ temps' = WithoutTemp(temps, svTmp[t])
              /\ SaveReturns(t, FALSE)
         ELSE /\ temps' = WithTemp(temps, svTmp[t], Written(t, svSaves[t], TRUE))
              /\ svPc' = [svPc EXCEPT ![t] = "save_rename"]
              /\ UNCHANGED <<faults, svTmp, svLast, svResult>>
    /\ UNCHANGED <<saveCounter, svSaves, svFile, svNames>>
    /\ UNCHANGED exceptSave

\* std::fs::rename(temp, path); on failure, also for a temp file that is
\* gone, the temp file is removed
SaveIndexRename(t) ==
    /\ svPc[t] = "save_rename"
    /\ \E f \in FaultChoices({"rename"}) :
         IF f = "rename" \/ ~TempExists(svTmp[t])
         THEN /\ faults' = IF f = "rename" THEN faults + 1 ELSE faults
              /\ temps' = WithoutTemp(temps, svTmp[t])
              /\ SaveReturns(t, FALSE)
              /\ UNCHANGED svFile
         ELSE /\ svFile' = [svFile EXCEPT ![t] = {TempContent(svTmp[t])}]
              /\ temps' = WithoutTemp(temps, svTmp[t])
              /\ SaveReturns(t, TRUE)
              /\ UNCHANGED faults
    /\ UNCHANGED <<saveCounter, svSaves, svNames>>
    /\ UNCHANGED exceptSave

InitSave ==
    /\ InitDB /\ InitRuntime /\ target = "other"
    /\ OnceIdle
    /\ FilterIdle
    /\ CropIdle
    /\ PreprocessIdle
    /\ LongSideIdle
    /\ SessionIdle
    /\ SlotsIdle
    /\ FaceIdIdle
    /\ ThumbnailIdle
    /\ SearchIdle
    /\ DetectIdle
    /\ svPc = [t \in Savers |-> "idle"]
    /\ svTmp = [t \in Savers |-> NoTemp]
    /\ svLast = [t \in Savers |-> NoTemp]
    /\ svResult = [t \in Savers |-> "none"]
    /\ svSaves = [t \in Savers |-> 0]
    /\ svFile = [t \in Savers |-> {}]
    /\ svNames = <<>>

NextSave ==
    \E t \in Savers :
        \/ SaveIndexDir(t)
        \/ SaveIndexWriteBegin(t)
        \/ SaveIndexWriteEnd(t)
        \/ SaveIndexRename(t)

SpecSave == InitSave /\ [][NextSave]_vars

\* ---- properties of concurrent saves

Saving(t) == svTmp[t] # NoTemp

\* the temp file of a name, None for no file
TempFile(ts, name) == {x \in ts : x[1] = name}

\* the handle took no step
Waits(t) == svPc'[t] = svPc[t] /\ svSaves'[t] = svSaves[t]

C26_OwnSnapshotRenamed ==
    \A t \in Savers : \A file \in svFile[t] : file.owner = t /\ file.whole

C26_ErrWitness ==
    \E t \in Savers :
        /\ svPc[t] = "idle"
        /\ svResult[t] = "Err"
        /\ svLast[t] # NoTemp

\* ======================================================================
\* The one-shot registration of the decoder hooks (image/decode.rs)
\* ======================================================================
\* The threads are the callers of decode_image_from_path, which both API
\* functions reach through crate::image::decode.

MaxDecoders == 3
MaxDecodes == 2

Decoders == 1..MaxDecoders

exceptOnce ==
    <<dbVars, rtVars, detVars, searchVars, thumbnailVars, faceIdVars, slotsVars,
      sessionVars, longSideVars, preprocessVars, cropVars, filterVars, saveVars>>

\* decode_image_from_path up to init_image_decoders
DecodeImageFromPath(t) ==
    /\ onPc[t] = "idle"
    /\ onDecodes[t] < MaxDecodes
    /\ onDecodes' = [onDecodes EXCEPT ![t] = @ + 1]
    /\ onPc' = [onPc EXCEPT ![t] = "init"]
    /\ UNCHANGED <<onState, onRegistrations>>
    /\ UNCHANGED exceptOnce

\* (variant: the closure run by every caller that finds it not yet complete)
CallOnceUnguarded(t) ==
    /\ onPc[t] = "init"
    /\ CASE onState = "complete" ->
                /\ onPc' = [onPc EXCEPT ![t] = "decode"]
                /\ UNCHANGED onState
         [] onState = "poisoned" ->
                /\ onPc' = [onPc EXCEPT ![t] = "panicked"]
                /\ UNCHANGED onState
         [] OTHER ->
                /\ onState' = "running"
                /\ onPc' = [onPc EXCEPT ![t] = "register"]
    /\ UNCHANGED <<onDecodes, onRegistrations>>
    /\ UNCHANGED exceptOnce

\* IMAGE_DECODER_HOOKS_INIT.call_once: the first caller runs the closure,
\* a caller that finds it running waits, a later one returns at once; on a
\* poisoned Once call_once panics
CallOnce(t) ==
    /\ onPc[t] = "init"
    /\ onState # "running"
    /\ CASE onState = "complete" ->
                /\ onPc' = [onPc EXCEPT ![t] = "decode"]
                /\ UNCHANGED onState
         [] onState = "poisoned" ->
                /\ onPc' = [onPc EXCEPT ![t] = "panicked"]
                /\ UNCHANGED onState
         [] OTHER ->
                /\ onState' = "running"
                /\ onPc' = [onPc EXCEPT ![t] = "register"]
    /\ UNCHANGED <<onDecodes, onRegistrations>>
    /\ UNCHANGED exceptOnce

\* the closure calls register_image_decoder_hooks_with_guardrails
RegisterHooks(t) ==
    /\ onPc[t] = "register"
    /\ onRegistrations' = onRegistrations + 1
    /\ onPc' = [onPc EXCEPT ![t] = "registered"]
    /\ UNCHANGED <<onState, onDecodes>>
    /\ UNCHANGED exceptOnce

\* the closure ends: it returns and the Once is complete, or its
\* debug_assert finds no hook active and panics, which poisons the Once
RegistrationClosureEnds(t) ==
    /\ onPc[t] = "registered"
    /\ \/ /\ onState' = "complete"
          /\ onPc' = [onPc EXCEPT ![t] = "decode"]
       \/ /\ onState' = "poisoned"
          /\ onPc' = [onPc EXCEPT ![t] = "panicked"]
    /\ UNCHANGED <<onDecodes, onRegistrations>>
    /\ UNCHANGED exceptOnce

\* the rest of decode_image_from_path: the reader guesses the format and
\* decodes, and the call returns Ok or Err
DecodeWithImageCrate(t) ==
    /\ onPc[t] = "decode"
    /\ onPc' = [onPc EXCEPT ![t] = "idle"]
    /\ UNCHANGED <<onState, onDecodes, onRegistrations>>
    /\ UNCHANGED exceptOnce

InitOnce ==
    /\ InitDB /\ InitRuntime /\ target = "other"
    /\ SaveIdle
    /\ FilterIdle
    /\ CropIdle
    /\ PreprocessIdle
    /\ LongSideIdle
    /\ SessionIdle
    /\ SlotsIdle
    /\ FaceIdIdle
    /\ ThumbnailIdle
    /\ SearchIdle
    /\ DetectIdle
    /\ onState = "incomplete"
    /\ onPc = [t \in Decoders |-> "idle"]
    /\ onDecodes = [t \in Decoders |-> 0]
    /\ onRegistrations = 0

NextOnce ==
    \E t \in Decoders :
        \/ DecodeImageFromPath(t)
        \/ CallOnce(t)
        \/ RegisterHooks(t)
        \/ RegistrationClosureEnds(t)
        \/ DecodeWithImageCrate(t)

SpecOnce == InitOnce /\ [][NextOnce]_vars

\* ---- properties of the registration

PastInit(t) == onPc[t] = "decode"

C27_WaitingWitness ==
    \E t, u \in Decoders :
        /\ onPc[t] = "init"
        /\ onPc[u] = "registered"

\* the closure panicked and a later call panics in call_once
C27_PoisonedWitness ==
    /\ onState = "poisoned"
    /\ \A t \in Decoders : onPc[t] = "panicked"
    /\ onRegistrations = 1

\* ======================================================================
\* Failing mutators of the vector index (api/usearch_api.rs)
\* ======================================================================

\* a mutator fails before it reaches save_index
FailsInMemory ==
    /\ Idle
    /\ calls' = calls + 1
    /\ pc' = "idle"
    /\ result' = "Err"

\* a mutator has returned Err, beside a backing file that was saved before
ReturnedErr == Idle /\ result = "Err" /\ IsSnapshot(disk)

\* C28: a mutator that returns Err leaves the in-memory index unchanged, the
\* same keys with the same vectors as before the call, and so still equal to
\* the last snapshot on disk; also when the add fails after the existing key
\* was removed, when a bulk call fails in its middle and when save_index
\* fails.
C28_ErrLeavesIndexUnchanged ==
    /\ [][FailsInMemory => index' = index]_vars
    /\ [](ReturnedErr => SameContents(Load(disk), index))

\* what holds: a call that returns Err leaves the backing file as it was
C28_ErrLeavesFileUnchanged ==
    [][(handle = "open" /\ result' = "Err") => disk' = disk]_vars

\* in runs without a failing library or file-system call no call returns Err
C28_NoErrWithoutFailure ==
    (faults = 0) => result # "Err"

\* ======================================================================
\* Failing and concurrent ensure_runtime calls (ml/runtime.rs)
\* ======================================================================

\* thread t leaves the first block of ensure_runtime to build a runtime
GoesToBuild(t) == callPc[t] = "ensure_check" /\ callPc'[t] = "create"

\* create_runtime of thread t fails and ensure_runtime returns its error
BuildFails(t) == callPc[t] = "create" /\ callPc'[t] = "returned"

\* create_runtime of thread t returns a runtime
BuildSucceeds(t) == callPc[t] = "create" /\ callPc'[t] = "install"

\* thread t installs the runtime it has built
Installs(t) == callPc[t] = "install" /\ callPc'[t] # "install"

\* a session of the config has to be built, and building it can fail
NeedsSession(c) == ~create_runtime(c, FALSE).ok

\* the registry holds a runtime of the config
Installed(c) == GLOBAL_RUNTIME # None /\ Unwrap(GLOBAL_RUNTIME).config = c

\* C29: an ensure_runtime(config) that fails because a session cannot be
\* built leaves the registry as it was before the call, up to the clearing of
\* what a panicked closure left there: neither its first block, which is
\* followed by the failing build, nor the failing build changes the registry,
\* and the runtime is installed only after it was built whole.
C29_FailedBuildLeavesRegistry ==
    [][\A t \in Threads :
          /\ (GoesToBuild(t) /\ NeedsSession(config[t])) =>
                 (GLOBAL_RUNTIME' = GLOBAL_RUNTIME \/ stale)
          /\ BuildFails(t) =>
                 (GLOBAL_RUNTIME' = GLOBAL_RUNTIME /\ built'[t] = None)
          /\ Installs(t) =>
                 GLOBAL_RUNTIME' = Some(RuntimeState(config[t],
                     Unwrap(create_runtime(config[t], TRUE).runtime)))
      ]_vars

\* the same for the calls made while the mutex is not poisoned
C29_FailedBuildLeavesRegistryUnpoisoned ==
    [][\A t \in Threads :
          /\ (~poisoned /\ GoesToBuild(t)) => GLOBAL_RUNTIME' = GLOBAL_RUNTIME
          /\ BuildFails(t) =>
                 (GLOBAL_RUNTIME' = GLOBAL_RUNTIME /\ built'[t] = None)
          /\ Installs(t) =>
                 GLOBAL_RUNTIME' = Some(RuntimeState(config[t],
                     Unwrap(create_runtime(config[t], TRUE).runtime)))
      ]_vars

\* C30: when several threads call ensure_runtime or with_runtime_mut with one
\* config at once, the sessions are built once: no thread builds a runtime
\* for a config that is installed, and no installed runtime is replaced by
\* another runtime of its config.
C30_SessionsBuiltOnce ==
    [][\A t \in Threads :
          /\ (~poisoned /\ BuildSucceeds(t)) => ~Installed(config[t])
          /\ (~poisoned /\ Installs(t)) => ~Installed(config[t])
      ]_vars

\* what holds with concurrent callers: a thread goes on to build only when
\* its first block found the registry without a runtime of its config
C30_BuildsOnlyWhenNotFound ==
    [][\A t \in Threads : GoesToBuild(t) => (poisoned \/ ~Installed(config[t]))]_vars

\* with one caller no runtime is built or installed for an installed config
C30_SingleCallerBuildsOnce ==
    [][(~poisoned /\ (BuildSucceeds(1) \/ Installs(1))) => ~Installed(config[1])]_vars

====
